---- MODULE Spec2Model ----
(***************************************************************************)
(* The delivery-route planner of bookstore.py ("delivery TSP.py" section): *)
(* haversine, NearestNeighbourAlgorithm, BruteForceAlgorithm, App.compute  *)
(* and App.save_locations / App.load_locations; and the RecommenderSystem  *)
(* of its book-recommendation section.                                     *)
(*                                                                         *)
(* Floating-point values are modelled in fixed point: angles and           *)
(* trigonometric values are integers in units of 1/Scale, every quotient   *)
(* is rounded to nearest with the sign handled separately (as IEEE         *)
(* rounding is sign-symmetric), and distances are whole kilometres.        *)
(***************************************************************************)
EXTENDS Integers, Sequences, FiniteSets, TLC

VARIABLES
    start,      \* the `start` argument of the solver calls: (lat, lon)
    points,     \* the `points` argument: a list of (lat, lon, name)
    pc,         \* which solver call is on the stack: "idle", "nn" or "bf"
    nn,         \* the locals of NearestNeighbourAlgorithm.compute
    bf,         \* the locals of BruteForceAlgorithm.compute
    ret_nn,     \* what the last NearestNeighbourAlgorithm.compute returned
    ret_bf,     \* what the last BruteForceAlgorithm.compute returned
    first_nn,   \* history: what the first NearestNeighbourAlgorithm.compute returned
    first_bf,   \* history: what the first BruteForceAlgorithm.compute returned
    calls_nn,   \* history: completed calls of NearestNeighbourAlgorithm.compute
    calls_bf,   \* history: completed calls of BruteForceAlgorithm.compute
    iters,      \* history: iterations of the while loop in the current/last nn call
    evals,      \* history: permutations evaluated in the current/last bf call
    start_entry,        \* App.start_entry: the text of the start field
    destinations_raw,   \* App.destinations_raw: the postcodes added so far
    self_start_loc,     \* App.start_loc: None or (lat, lon)
    self_points,        \* App.points: None or a reference to a list on the heap
    heap,               \* the list objects App.compute has created
    self_order_nn,      \* App.order_nn
    self_order_bf,      \* App.order_bf
    threads,            \* the threads thread_compute starts, each running App.compute
    hav,                \* two points and what haversine returned for them
    locations_json,     \* the file locations.json: its parsed content, or NoFile
    last_save,          \* history: (start_loc, points) as save_locations last wrote them
    last_load,          \* history: how the last load_locations ended, what it left in
                        \* start_loc and points, and the save it read
    users,              \* RecommenderSystem.users: the User objects in dict order
    books,              \* RecommenderSystem.books: the ids of the catalogue's books
    rec,                \* the locals of RecommenderSystem.recommend_books
    msu,                \* a call of most_similar_users on its own: arguments and result
    users_json,         \* the file users.json
    books_json,         \* the file books.json
    written,            \* history: the files load_data has rewritten
    ld,                 \* the locals of load_data, and the files as it found them
    gui,                \* InventoryGUI: "not started" or "running"
    items,              \* InventoryManager.items: the items in dict order
    orders,             \* OrderManager.orders
    table,              \* the rows of InventoryGUI.table with their tags
    alert,              \* the items named in the low-stock alert of the last handler
    inv_last,           \* history: the last handler of the inventory and its outcome
    inventory_json,     \* the file inventory.json
    orders_json,        \* the file orders.json
    draw                \* the end of App.compute: the orders, the edges and the two graphs

solver_vars == <<start, points, pc, nn, bf, ret_nn, ret_bf, first_nn, first_bf,
                 calls_nn, calls_bf, iters, evals>>

app_vars == <<start_entry, destinations_raw, self_start_loc, self_points, heap,
              self_order_nn, self_order_bf, threads>>

\* what neither the solvers nor App.compute touch
file_vars == <<locations_json, last_save, last_load>>

rec_vars == <<users, books, rec, msu>>

load_vars == <<users_json, books_json, written, ld>>

inv_vars == <<gui, items, orders, table, alert, inv_last, inventory_json, orders_json>>

draw_vars == <<draw>>

other_vars == <<hav, file_vars, rec_vars, load_vars, inv_vars, draw_vars>>

vars == <<solver_vars, app_vars, other_vars>>

-----------------------------------------------------------------------------
(* Bounds of the model. *)

MaxN == 3          \* longest destination list
MaxCalls == 2      \* calls of each solver in one behaviour
MaxDests == 1      \* longest App.destinations_raw
MaxLoads == 1      \* presses of "Load Locations" in one behaviour
MaxRecs == 2       \* largest max_recs passed to recommend_books
MaxTopK == 2       \* largest top_k passed to most_similar_users directly

-----------------------------------------------------------------------------
(* Fixed-point arithmetic standing for Python floats. *)

Scale == 10^4
PI == 31416

Abs(v) == IF v < 0 THEN -v ELSE v
Sgn(v) == IF v < 0 THEN -1 ELSE 1
\* a / b rounded to nearest, symmetric in sign
Quot(a, b) == Sgn(a) * Sgn(b) * ((Abs(a) + Abs(b) \div 2) \div Abs(b))
\* the product of two fixed-point values
Mul(a, b) == Quot(a * b, Scale)

RECURSIVE SqrtIter(_, _)
SqrtIter(n, r) == IF r * r <= n THEN r ELSE SqrtIter(n, (r + n \div r) \div 2)
ISqrt(n) == IF n <= 0 THEN 0 ELSE SqrtIter(n, IF n > 46340 THEN 46340 ELSE n)

\* math.radians
radians(deg) == Quot(deg * PI, 180)

\* alternating power series: sum of term_k, term_(k+2) = -term_k * t2 / (k (k+1))
RECURSIVE Series(_, _, _, _, _)
Series(term, t2, k, last, acc) ==
    IF k > last THEN acc
    ELSE LET nxt == -Quot(Mul(term, t2), k * (k + 1))
         IN  Series(nxt, t2, k + 2, last, acc + nxt)

\* math.sin, math.cos, math.sqrt
sin(t) == Series(t, Mul(t, t), 2, 12, t)
cos(t) == Series(Scale, Mul(t, t), 1, 11, Scale)
sqrt(v) == ISqrt(v * Scale)

RECURSIVE AtanSeries(_, _, _, _, _)
AtanSeries(pow, t2, k, last, acc) ==
    IF k > last THEN acc
    ELSE LET nxt == -Mul(pow, t2)
         IN  AtanSeries(nxt, t2, k + 2, last, acc + Quot(nxt, k))
AtanSmall(t) == AtanSeries(t, Mul(t, t), 3, 9, t)
\* atan(t) = 2 atan(t / (1 + sqrt(1 + t^2)))
HalfArg(t) == Quot(t * Scale, Scale + sqrt(Scale + Mul(t, t)))
Atan01(t) == 4 * AtanSmall(HalfArg(HalfArg(t)))
\* math.atan2 for y >= 0, x >= 0
atan2(y, x) ==
    IF y = 0 THEN 0
    ELSE IF x = 0 THEN PI \div 2
    ELSE IF y <= x THEN Atan01(Quot(y * Scale, x))
    ELSE PI \div 2 - Atan01(Quot(x * Scale, y))

-----------------------------------------------------------------------------
(* haversine(a, b): distance in km between (lat, lon) points, in degrees. *)

R == 6371

\* math.sqrt(1 - x) raises ValueError ("math domain error") when the rounded
\* x exceeds 1; the raise stands in the place of the distance
MathDomainError == -1

haversineCalc(a, b) ==
    LET lat1 == radians(a[1])
        lon1 == radians(a[2])
        lat2 == radians(b[1])
        lon2 == radians(b[2])
        dlat == lat2 - lat1
        dlon == lon2 - lon1
        sdlat == sin(Quot(dlat, 2))
        sdlon == sin(Quot(dlon, 2))
        x == Mul(sdlat, sdlat) + Mul(Mul(cos(lat1), cos(lat2)), Mul(sdlon, sdlon))
    IN  IF x > Scale THEN MathDomainError
        ELSE Quot(R * 2 * atan2(sqrt(x), sqrt(Scale - x)), Scale)

\* no value yet
NotCalled == -2

\* The coordinates the geocoder can return in this model, in degrees.
Coords == { <<0, 0>>, <<0, 10>>, <<0, -20>>, <<10, 0>> }

\* haversine over Coords, evaluated once
HavTable == [a \in Coords, b \in Coords |-> haversineCalc(a, b)]

haversine(a, b) == HavTable[a, b]

-----------------------------------------------------------------------------
(* The tour request. *)

\* the formatted address the geocoder returns with a coordinate
Address(c) == "addr " \o ToString(c)

\* a destination as App.compute stores it: (lat, lon, name)
GeoPoint(c) == <<c[1], c[2], Address(c)>>
GeoPoints == { GeoPoint(c) : c \in Coords }

\* (points[i][0], points[i][1]) for a Python index i
Pt(pts, i) == <<pts[i + 1][1], pts[i + 1][2]>>

\* every list of at most n destinations
Requests(n) == UNION { [1..k -> GeoPoints] : k \in 0..n }

\* Python's None where an index or an order is expected
None == <<-1>>
NoIndex == -1

\* list(range(n))
Range(n) == [i \in 1..n |-> i - 1]

\* list.remove(v): drops the first occurrence of v
RECURSIVE Remove(_, _)
Remove(s, v) ==
    IF s = <<>> THEN <<>>
    ELSE IF Head(s) = v THEN Tail(s)
    ELSE <<Head(s)>> \o Remove(Tail(s), v)

-----------------------------------------------------------------------------
(* NearestNeighbourAlgorithm.compute *)

\* best_d = 10**9 and best_distance = 10**9
Sentinel == 10^9

\* the test on a candidate in the inner for loop
CloserLax(d, best_d) == d <= best_d
Closer(d, best_d) == d < best_d

\* the inner for loop: for i in unvisited, keep the closest so far
RECURSIVE Scan(_, _, _, _)
Scan(current, pts, unvisited, acc) ==
    IF unvisited = <<>> THEN acc
    ELSE LET i == Head(unvisited)
             d == haversine(current, Pt(pts, i))
         IN  Scan(current, pts, Tail(unvisited),
                  IF Closer(d, acc.best_d) THEN [best |-> i, best_d |-> d] ELSE acc)

Nearest(current, pts, unvisited) ==
    Scan(current, pts, unvisited, [best |-> NoIndex, best_d |-> Sentinel])

\* the locals once the frame is gone
NoFrameNN == [unvisited |-> <<>>, current |-> <<0, 0>>, order |-> <<>>, total |-> -1]

\* total = 0
NNInitTotalCarried == IF ret_nn.total > 0 THEN ret_nn.total ELSE 0
NNInitTotal == 0

\* lines 834-837
NNEnter(st, pts) ==
    [unvisited |-> Range(Len(pts)), current |-> st, order |-> <<>>, total |-> NNInitTotal]

\* unvisited.remove(best)
NNRemoveHead(unvisited, best) == Tail(unvisited)
NNRemoveNothing(unvisited, best) == unvisited
NNRemove(unvisited, best) == Remove(unvisited, best)

\* one iteration of the while loop, lines 840-850
NNBody(f, pts) ==
    LET n == Nearest(f.current, pts, f.unvisited)
    IN  [unvisited |-> NNRemove(f.unvisited, n.best),
         current   |-> Pt(pts, n.best),
         order     |-> Append(f.order, n.best),
         total     |-> f.total + n.best_d]

\* total += haversine(current, start)
NNCloseNoReturn(f, st) == f.total
NNClose(f, st) == f.total + haversine(f.current, st)

\* the points list after a pass of the while body: lines 840-850 index it
\* and write to the locals only
NNPointsConsumed(pts) == Tail(pts)
NNPointsAfter(pts) == pts

\* a returned (order, total), or the exception that left the call
Returned(order, total) == [raised |-> FALSE, order |-> order, total |-> total]
Raised == [raised |-> TRUE, order |-> None, total |-> -1]
NoResult == [raised |-> FALSE, order |-> None, total |-> -1]

-----------------------------------------------------------------------------
(* BruteForceAlgorithm.compute *)

\* itertools.permutations(range(n)) yields the n! orders of 0..n-1 in
\* lexicographic order; the (k+1)-th one it yields, for k in 0..n!-1
RECURSIVE Factorial(_)
Factorial(n) == IF n <= 1 THEN 1 ELSE n * Factorial(n - 1)

RECURSIVE Unrank(_, _)
Unrank(s, k) ==
    IF s = <<>> THEN <<>>
    ELSE LET f == Factorial(Len(s) - 1)
             i == (k \div f) + 1
         IN  <<s[i]>> \o Unrank(Remove(s, s[i]), k % f)

permutations(n, k) == Unrank(Range(n), k)

\* lines 863-869: the length of the round trip along perm
RECURSIVE Walk(_, _, _, _)
Walk(current, pts, perm, total) ==
    IF perm = <<>> THEN [current |-> current, total |-> total]
    ELSE LET p == Pt(pts, Head(perm))
         IN  Walk(p, pts, Tail(perm), total + haversine(current, p))

PermTotalNoReturn(st, pts, perm) == Walk(st, pts, perm, 0).total
PermTotalTwiceReturn(st, pts, perm) ==
    LET w == Walk(st, pts, perm, 0)
    IN  w.total + haversine(w.current, st) + haversine(w.current, st)
PermTotal(st, pts, perm) ==
    LET w == Walk(st, pts, perm, 0)
    IN  w.total + haversine(w.current, st)

NoFrameBF == [k |-> 0, best_order |-> None, best_distance |-> -1]

\* lines 859-860, and the iterator of line 862 before its first element
BFEnter == [k |-> 0, best_order |-> None, best_distance |-> Sentinel]

\* if total < best_distance
BetterLax(total, best_distance) == total <= best_distance
BetterAlways(total, best_distance) == TRUE
Better(total, best_distance) == total < best_distance

\* one iteration of the for loop over the permutations, lines 862-873
BFBodyEarlyExit(f, st, pts) ==
    LET perm == permutations(Len(pts), f.k)
        total == PermTotal(st, pts, perm)
    IN  IF Better(total, f.best_distance)
        THEN [k |-> Factorial(Len(pts)), best_order |-> perm, best_distance |-> total]
        ELSE [f EXCEPT !.k = f.k + 1]
BFBody(f, st, pts) ==
    LET perm == permutations(Len(pts), f.k)
        total == PermTotal(st, pts, perm)
    IN  IF Better(total, f.best_distance)
        THEN [k |-> f.k + 1, best_order |-> perm, best_distance |-> total]
        ELSE [f EXCEPT !.k = f.k + 1]

\* the points list after a pass of the for body: lines 862-873 index it and
\* write to the locals only
BFPointsAfter(pts) == pts

\* return list(best_order), best_distance: list(None) raises TypeError
BFResultFalsy(f) ==
    IF f.best_order = None \/ f.best_order = <<>>
    THEN Raised ELSE Returned(f.best_order, f.best_distance)
BFResult(f) ==
    IF f.best_order = None THEN Raised ELSE Returned(f.best_order, f.best_distance)

-----------------------------------------------------------------------------
(* The solvers as App.compute calls them: run to their return. *)

RECURSIVE NNRun(_, _)
NNRun(f, pts) ==
    IF f.unvisited = <<>> THEN f
    ELSE IF Nearest(f.current, pts, f.unvisited).best = NoIndex
         THEN [f EXCEPT !.order = None, !.unvisited = <<>>]
         ELSE NNRun(NNBody(f, pts), pts)

NNCompute(st, pts) ==
    LET f == NNRun(NNEnter(st, pts), pts)
    IN  IF f.order = None THEN Raised ELSE Returned(f.order, NNClose(f, st))

RECURSIVE BFRun(_, _, _)
BFRun(f, st, pts) ==
    IF f.k = Factorial(Len(pts)) THEN f ELSE BFRun(BFBody(f, st, pts), st, pts)

BFCompute(st, pts) == BFResult(BFRun(BFEnter, st, pts))

-----------------------------------------------------------------------------
(* App: the form, and App.compute on the threads thread_compute starts. *)

Threads == {"t1", "t2"}

\* what can be typed as a postcode, and where the geocoder puts it
Queries == {"S", "A", "B"}
Locate(q) == CASE q = "S" -> <<0, 0>>
               [] q = "A" -> <<0, 10>>
               [] q = "B" -> <<10, 0>>
               [] OTHER -> CHOOSE c \in Coords : Address(c) = q

\* geocode_postcode returns (None, debug) when the lookup fails
Fail == <<"fail">>

NoRef == 0

\* a thread's position in compute, its locals, the arguments of the solver
\* call it is in (the list by reference and as it was on entry), and, as
\* history, what it geocoded, passed to each solver and got back
NotStarted ==
    [pc |-> "start", start_q |-> "", dests |-> <<>>, i |-> 0,
     geo |-> <<>>, err |-> "", called |-> {},
     arg_start |-> None, arg_ref |-> NoRef, arg_list |-> <<>>,
     nn_args |-> None, bf_args |-> None, nn_ret |-> NoResult, bf_ret |-> NoResult]

\* lines 1149-1151: if not dests: showerror, return
NoDestinationsUnchecked(dests) == FALSE
NoDestinations(dests) == dests = <<>>

\* add_location, lines 1101-1114: a postcode is required. The label list and
\* the list box only feed the display and are left out.
add_location(pcode) ==
    /\ Len(destinations_raw) < MaxDests
    /\ IF pcode = ""
       THEN UNCHANGED destinations_raw
       ELSE destinations_raw' = Append(destinations_raw, pcode)
    /\ UNCHANGED <<start_entry, self_start_loc, self_points, heap,
                   self_order_nn, self_order_bf, threads>>

\* the user types the start postcode into start_entry (line 1044)
type_start(q) ==
    /\ start_entry # q
    /\ start_entry' = q
    /\ UNCHANGED <<destinations_raw, self_start_loc, self_points, heap,
                   self_order_nn, self_order_bf, threads>>

\* thread_compute, lines 1136-1137
thread_compute(t) ==
    /\ threads[t].pc = "start"
    /\ threads' = [threads EXCEPT ![t].pc = "read_start"]
    /\ UNCHANGED <<start_entry, destinations_raw, self_start_loc, self_points, heap,
                   self_order_nn, self_order_bf>>

\* compute, line 1142
compute_read_start(t) ==
    /\ threads[t].pc = "read_start"
    /\ threads' = [threads EXCEPT ![t].pc = "read_dests", ![t].start_q = start_entry]
    /\ UNCHANGED <<start_entry, destinations_raw, self_start_loc, self_points, heap,
                   self_order_nn, self_order_bf>>

\* compute, lines 1143-1151
compute_read_dests(t) ==
    /\ threads[t].pc = "read_dests"
    /\ LET dests == destinations_raw
       IN  threads' =
             IF threads[t].start_q = ""
             THEN [threads EXCEPT ![t].pc = "done", ![t].dests = dests,
                                  ![t].err = "Start address required"]
             ELSE IF NoDestinations(dests)
             THEN [threads EXCEPT ![t].pc = "done", ![t].dests = dests,
                                  ![t].err = "Need at least one destination"]
             ELSE [threads EXCEPT ![t].pc = "geo_start", ![t].dests = dests]
    /\ UNCHANGED <<start_entry, destinations_raw, self_start_loc, self_points, heap,
                   self_order_nn, self_order_bf>>

\* compute, lines 1153-1158: the geocoder answers or fails
compute_geocode_start(t, ok) ==
    /\ threads[t].pc = "geo_start"
    /\ IF ok
       THEN /\ self_start_loc' = Locate(threads[t].start_q)
            /\ threads' = [threads EXCEPT ![t].pc = "new_points",
                              ![t].geo = Append(@, Locate(threads[t].start_q))]
       ELSE /\ threads' = [threads EXCEPT ![t].pc = "done",
                              ![t].geo = Append(@, Fail),
                              ![t].err = "Failed geocoding start"]
            /\ UNCHANGED self_start_loc
    /\ UNCHANGED <<start_entry, destinations_raw, self_points, heap,
                   self_order_nn, self_order_bf>>

\* compute, line 1160: self.points = []
compute_new_points(t) ==
    /\ threads[t].pc = "new_points"
    /\ heap' = Append(heap, <<>>)
    /\ self_points' = Len(heap) + 1
    /\ threads' = [threads EXCEPT ![t].pc = "geo_dest", ![t].i = 1]
    /\ UNCHANGED <<start_entry, destinations_raw, self_start_loc,
                   self_order_nn, self_order_bf>>

\* compute, lines 1161-1166: one pass of the loop over dests; the append
\* goes to the list self.points names at that moment
compute_geocode_dest(t, ok) ==
    /\ threads[t].pc = "geo_dest"
    /\ threads[t].i <= Len(threads[t].dests)
    /\ LET c == Locate(threads[t].dests[threads[t].i])
       IN  IF ok
           THEN /\ heap' = [heap EXCEPT ![self_points] = Append(@, GeoPoint(c))]
                /\ threads' = [threads EXCEPT ![t].i = @ + 1, ![t].geo = Append(@, c)]
           ELSE /\ threads' = [threads EXCEPT ![t].pc = "done",
                                  ![t].geo = Append(@, Fail),
                                  ![t].err = "Failed geocoding"]
                /\ UNCHANGED heap
    /\ UNCHANGED <<start_entry, destinations_raw, self_start_loc, self_points,
                   self_order_nn, self_order_bf>>

\* compute, lines 1176-1177: the call evaluates self.start_loc and self.points
\* and enters nn.compute, which takes len(points) at line 834
compute_call_nn(t) ==
    /\ threads[t].pc = "geo_dest"
    /\ threads[t].i > Len(threads[t].dests)
    /\ threads' = [threads EXCEPT ![t].pc = "in_nn",
                      ![t].called = @ \cup {"nn"},
                      ![t].arg_start = self_start_loc,
                      ![t].arg_ref = self_points,
                      ![t].arg_list = heap[self_points],
                      ![t].nn_args = <<self_start_loc, heap[self_points]>>]
    /\ UNCHANGED <<start_entry, destinations_raw, self_start_loc, self_points, heap,
                   self_order_nn, self_order_bf>>

\* compute, line 1177: nn.compute returns, having read the elements its
\* unvisited indices name, and the result is stored in self.order_nn
compute_return_nn(t) ==
    /\ threads[t].pc = "in_nn"
    /\ LET r == NNCompute(threads[t].arg_start, threads[t].arg_list)
       IN  /\ self_order_nn' = r.order
           /\ threads' = [threads EXCEPT ![t].pc = "call_bf", ![t].nn_ret = r]
    /\ UNCHANGED <<start_entry, destinations_raw, self_start_loc, self_points, heap,
                   self_order_bf>>

\* compute, lines 1180-1181: the call evaluates self.start_loc and self.points
\* again and enters bf.compute, which takes len(points) at line 862
compute_call_bf(t) ==
    /\ threads[t].pc = "call_bf"
    /\ threads' = [threads EXCEPT ![t].pc = "in_bf",
                      ![t].called = @ \cup {"bf"},
                      ![t].arg_start = self_start_loc,
                      ![t].arg_ref = self_points,
                      ![t].arg_list = heap[self_points],
                      ![t].bf_args = <<self_start_loc, heap[self_points]>>]
    /\ UNCHANGED <<start_entry, destinations_raw, self_start_loc, self_points, heap,
                   self_order_nn, self_order_bf>>

\* compute, line 1181: bf.compute returns and the result is stored in
\* self.order_bf
compute_return_bf(t) ==
    /\ threads[t].pc = "in_bf"
    /\ LET r == BFCompute(threads[t].arg_start, threads[t].arg_list)
       IN  /\ self_order_bf' = r.order
           /\ threads' = [threads EXCEPT ![t].pc = "done", ![t].bf_ret = r]
    /\ UNCHANGED <<start_entry, destinations_raw, self_start_loc, self_points, heap,
                   self_order_nn>>

-----------------------------------------------------------------------------
(* App.save_locations and App.load_locations, run by the "Save Locations" *)
(* and "Load Locations" buttons.                                          *)

\* os.path.exists("locations.json") is false
NoFile == [missing |-> TRUE]

\* lines 1242-1245: the dict json.dump writes; json.load gives it back with
\* every float and string as written
ToJson(st, pts) ==
    [start  |-> [lat |-> st[1], lon |-> st[2]],
     points |-> [i \in 1..Len(pts) |-> [lat |-> pts[i][1], lon |-> pts[i][2],
                                        name |-> pts[i][3]]]]

\* lines 1258-1259: tuples rebuilt from the loaded dict
StartFromJson(data) == <<data.start.lat, data.start.lon>>
PointsFromJson(data) ==
    [i \in 1..Len(data.points) |->
        <<data.points[i].lat, data.points[i].lon, data.points[i].name>>]

\* App.__init__ (lines 963-1098) creates no attribute dest_text
HasDestText == FALSE

\* save_locations, lines 1238-1249
save_locations ==
    /\ IF self_start_loc = None \/ self_points = NoRef \/ heap[self_points] = <<>>
       THEN UNCHANGED <<locations_json, last_save>>
       ELSE /\ locations_json' = ToJson(self_start_loc, heap[self_points])
            /\ last_save' = <<self_start_loc, heap[self_points]>>
    /\ UNCHANGED <<start_entry, destinations_raw, self_start_loc, self_points, heap,
                   self_order_nn, self_order_bf, threads, last_load>>

\* load_locations, lines 1251-1265: the handler runs until it returns or an
\* exception leaves it; what it assigned before the exception stays
load_locations ==
    /\ last_load.count < MaxLoads
    /\ IF locations_json = NoFile
       THEN /\ last_load' = [outcome |-> "not found", start_loc |-> self_start_loc,
                             points |-> <<>>, saved |-> None,
                             count |-> last_load.count + 1]
            /\ UNCHANGED <<start_entry, self_start_loc, self_points, heap>>
       ELSE LET st == StartFromJson(locations_json)
                pts == PointsFromJson(locations_json)
            IN  /\ self_start_loc' = st
                /\ heap' = Append(heap, pts)
                /\ self_points' = Len(heap) + 1
                /\ start_entry' = IF pts = <<>> THEN "" ELSE pts[1][3]
                /\ last_load' =
                      [outcome   |-> IF pts = <<>> THEN "IndexError"
                                     ELSE IF HasDestText THEN "Loaded"
                                     ELSE "AttributeError",
                       start_loc |-> st, points |-> pts, saved |-> last_save,
                       count     |-> last_load.count + 1]
    /\ UNCHANGED <<destinations_raw, self_order_nn, self_order_bf, threads,
                   locations_json, last_save>>

-----------------------------------------------------------------------------
(* RecommenderSystem (lines 28-78). A similarity is the float inter / union; *)
(* it is kept exactly, as a whole number of 1/Unit, Unit being a common      *)
(* multiple of every possible union size.                                    *)

UserIds == <<"U1", "U2", "U3">>
BookIds == {"B1", "B2", "B3"}
Unit == Factorial(Cardinality(BookIds))

\* top_k = 3, the default recommend_books relies on
TopK == 3

\* inter / union
FloatDiv(n, d) == (n * Unit) \div d

\* jaccard_similarity, lines 33-40
jaccard_overlap(a, b) ==
    IF a = {} THEN 0 ELSE FloatDiv(Cardinality(a \cap b), Cardinality(a))
jaccard_similarity(a, b) ==
    IF a = {} /\ b = {}
    THEN 0
    ELSE LET inter == Cardinality(a \cap b)
             union == Cardinality(a \cup b)
         IN  IF union # 0 THEN FloatDiv(inter, union) ELSE 0

\* sorted(..., key=lambda x: x[1], reverse=True): a stable sort of pairs by
\* their second component, largest first
RECURSIVE InsertDesc(_, _)
InsertDesc(sorted, e) ==
    IF sorted = <<>> THEN <<e>>
    ELSE IF Head(sorted)[2] >= e[2]
         THEN <<Head(sorted)>> \o InsertDesc(Tail(sorted), e)
         ELSE <<e>> \o sorted

SortNone(s) == s
RECURSIVE SortDesc(_)
SortDesc(s) ==
    IF s = <<>> THEN <<>>
    ELSE InsertDesc(SortDesc(SubSeq(s, 1, Len(s) - 1)), s[Len(s)])

\* s[:n] for n >= 0
Prefix(s, n) == SubSeq(s, 1, IF n < Len(s) THEN n ELSE Len(s))

\* self.users[target_user_id]
UserOf(us, uid) == us[CHOOSE i \in 1..Len(us) : us[i].user_id = uid]

\* most_similar_users, lines 42-53: the loop over self.users.items()
RECURSIVE Sims(_, _, _)
Sims(us, target, i) ==
    IF i > Len(us) THEN <<>>
    ELSE LET sim == jaccard_similarity(target.purchased_books, us[i].purchased_books)
         IN  (IF us[i].user_id # target.user_id /\ sim > 0
              THEN <<<<us[i], sim>>>> ELSE <<>>)
             \o Sims(us, target, i + 1)

most_similar_users(us, target_user_id, top_k) ==
    Prefix(SortDesc(Sims(us, UserOf(us, target_user_id), 1)), top_k)

\* score_map[book_id] = score_map.get(book_id, 0.0) + sim, on a dict kept as
\* its (key, value) pairs in insertion order
Put(score_map, book_id, sim) ==
    IF \E i \in 1..Len(score_map) : score_map[i][1] = book_id
    THEN [i \in 1..Len(score_map) |->
            IF score_map[i][1] = book_id
            THEN <<book_id, score_map[i][2] + sim>> ELSE score_map[i]]
    ELSE Append(score_map, <<book_id, 0 + sim>>)

\* if book_id in target.purchased_books: continue
OwnedNever(book_id, target) == FALSE
Owned(book_id, target) == book_id \in target.purchased_books

\* lines 67-70: the loop over one similar user's books, in the order the
\* set yields them
RECURSIVE ScoreBooks(_, _, _, _)
ScoreBooks(score_map, order, sim, target) ==
    IF order = <<>> THEN score_map
    ELSE ScoreBooks(IF Owned(Head(order), target)
                    THEN score_map
                    ELSE Put(score_map, Head(order), sim),
                    Tail(order), sim, target)

\* the orders in which iterating a set can yield its elements
Iterations(S) ==
    { p \in [1..Cardinality(S) -> S] : \A i, j \in DOMAIN p : i # j => p[i] # p[j] }

\* lines 72-77: rank, cut to max_recs, keep the books the catalogue knows
RECURSIVE Known(_, _)
Known(ranked, catalogue) ==
    IF ranked = <<>> THEN <<>>
    ELSE (IF Head(ranked)[1] \in catalogue THEN <<Head(ranked)>> ELSE <<>>)
         \o Known(Tail(ranked), catalogue)

Recs(score_map, max_recs, catalogue) ==
    Known(Prefix(SortDesc(score_map), max_recs), catalogue)

NoCall ==
    [pc |-> "idle", target |-> "", max_recs |-> 0, similar |-> <<>>, k |-> 0,
     score_map |-> <<>>, recs |-> <<>>]

NoCallMSU == [called |-> FALSE, target |-> "", top_k |-> 0, result |-> <<>>]

\* no recommender has been built
RecIdle ==
    /\ users = <<>>
    /\ books = {}
    /\ rec = NoCall
    /\ msu = NoCallMSU

-----------------------------------------------------------------------------
(* load_data (lines 126-176) with DEFAULT_USERS, DEFAULT_BOOKS and the two *)
(* save functions. A file is missing or holds a text; a text is            *)
(* unparseable or parses to a JSON dict, list or number.                   *)

\* lines 89-93
DEFAULT_USERS ==
    << [user_id |-> "U1", name |-> "Alice", purchased_books |-> <<"B1", "B2">>],
       [user_id |-> "U2", name |-> "Bob", purchased_books |-> <<"B2", "B3", "B4">>],
       [user_id |-> "U3", name |-> "Charlie", purchased_books |-> <<"B1", "B4">>] >>

\* lines 95-100
DEFAULT_BOOKS ==
    << [book_id |-> "B1", title |-> "Python Made Easy", genre |-> "Programming"],
       [book_id |-> "B2", title |-> "AI Basics", genre |-> "AI"],
       [book_id |-> "B3", title |-> "Deep Learning", genre |-> "AI"],
       [book_id |-> "B4", title |-> "Story of Night", genre |-> "Fiction"] >>

Missing == [tag |-> "missing"]
Text(j) == [tag |-> "text", json |-> j]
JBad == [t |-> "bad"]
JNum == [t |-> "num"]
JList(elems) == [t |-> "list", items |-> elems]
JDict(key, value) == [t |-> "dict", entries |-> [k \in {key} |-> value]]

\* json.dump({"users": users_data}, f), lines 112-116, and the same for
\* books, lines 119-123
save_users_json(users_data) == Text(JDict("users", users_data))
save_books_json(books_data) == Text(JDict("books", books_data))

\* the test of lines 134-139 (and 149-154) on the parsed value
DictOnly(raw, key) == raw.t = "dict" /\ key \in DOMAIN raw.entries
TopLevel(raw, key) ==
    (raw.t = "dict" /\ key \in DOMAIN raw.entries) \/ raw.t = "list"

\* the try block of lines 131-139 (and 146-154): the data, or the exception
ReadData(file, key, what) ==
    IF file.tag = "missing"
    THEN [ok |-> FALSE, e |-> "No such file or directory"]
    ELSE IF file.json.t = "bad"
    THEN [ok |-> FALSE, e |-> "Expecting value"]
    ELSE IF TopLevel(file.json, key)
    THEN [ok |-> TRUE,
          data |-> IF file.json.t = "dict" THEN file.json.entries[key]
                   ELSE file.json.items]
    ELSE [ok |-> FALSE, e |-> "invalid " \o what \o " structure"]

\* lines 142 and 157
Notice(fname, e) ==
    fname \o " issue (" \o e \o ") - using defaults and rewriting file."

\* "\n".join(msg_parts)
RECURSIVE Join(_)
Join(parts) ==
    IF parts = <<>> THEN ""
    ELSE IF Len(parts) = 1 THEN parts[1]
    ELSE parts[1] \o "\n" \o Join(Tail(parts))

\* d[k] = v on a dict kept as its (key, value) pairs in insertion order
DictSet(d, k, v) ==
    IF \E i \in 1..Len(d) : d[i][1] = k
    THEN [i \in 1..Len(d) |-> IF d[i][1] = k THEN <<k, v>> ELSE d[i]]
    ELSE Append(d, <<k, v>>)

Get(u, field, default) == IF field \in DOMAIN u THEN u[field] ELSE default

\* lines 161-167: the users dict, or the KeyError of an entry without user_id
RECURSIVE BuildUsers(_, _)
BuildUsers(users_data, d) ==
    IF users_data = <<>> THEN [raised |-> FALSE, dict |-> d]
    ELSE LET u == Head(users_data)
         IN  IF "user_id" \notin DOMAIN u THEN [raised |-> TRUE, dict |-> d]
             ELSE BuildUsers(Tail(users_data),
                    DictSet(d, u.user_id,
                       [user_id |-> u.user_id,
                        name |-> Get(u, "name", u.user_id),
                        purchased_books |->
                            LET l == Get(u, "purchased_books", <<>>)
                            IN  { l[i] : i \in 1..Len(l) }]))

\* lines 169-175
RECURSIVE BuildBooks(_, _)
BuildBooks(books_data, d) ==
    IF books_data = <<>> THEN [raised |-> FALSE, dict |-> d]
    ELSE LET b == Head(books_data)
         IN  IF "book_id" \notin DOMAIN b THEN [raised |-> TRUE, dict |-> d]
             ELSE BuildBooks(Tail(books_data),
                    DictSet(d, b.book_id,
                       [book_id |-> b.book_id,
                        title |-> Get(b, "title", b.book_id),
                        genre |-> Get(b, "genre", "Unknown")]))

NoLoad ==
    [pc |-> "idle", users_data |-> <<>>, books_data |-> <<>>, msg_parts |-> <<>>,
     users |-> <<>>, books |-> <<>>, msg |-> "", raised |-> FALSE,
     found_users |-> Missing, found_books |-> Missing]

\* load_data is not running
LoadIdle ==
    /\ users_json = Missing
    /\ books_json = Missing
    /\ written = {}
    /\ ld = NoLoad

\* lines 130-144
load_users ==
    /\ ld.pc = "users"
    /\ LET r == ReadData(users_json, "users", "users")
       IN  IF r.ok
           THEN /\ ld' = [ld EXCEPT !.pc = "books", !.users_data = r.data]
                /\ UNCHANGED <<users_json, written>>
           ELSE /\ ld' = [ld EXCEPT !.pc = "books", !.users_data = DEFAULT_USERS,
                                     !.msg_parts = Append(@, Notice("users.json", r.e))]
                /\ users_json' = save_users_json(DEFAULT_USERS)
                /\ written' = written \cup {"users.json"}
    /\ UNCHANGED books_json

\* lines 145-159
load_books ==
    /\ ld.pc = "books"
    /\ LET r == ReadData(books_json, "books", "books")
       IN  IF r.ok
           THEN /\ ld' = [ld EXCEPT !.pc = "build", !.books_data = r.data]
                /\ UNCHANGED <<books_json, written>>
           ELSE /\ ld' = [ld EXCEPT !.pc = "build", !.books_data = DEFAULT_BOOKS,
                                     !.msg_parts = Append(@, Notice("books.json", r.e))]
                /\ books_json' = save_books_json(DEFAULT_BOOKS)
                /\ written' = written \cup {"books.json"}
    /\ UNCHANGED users_json

\* lines 161-176: the objects are built and returned, or a KeyError leaves
\* load_data
load_build ==
    /\ ld.pc = "build"
    /\ LET us == BuildUsers(ld.users_data, <<>>)
           bs == BuildBooks(ld.books_data, <<>>)
       IN  ld' = IF us.raised \/ bs.raised
                 THEN [ld EXCEPT !.pc = "done", !.raised = TRUE]
                 ELSE [ld EXCEPT !.pc = "done", !.users = us.dict, !.books = bs.dict,
                                 !.msg = Join(ld.msg_parts)]
    /\ UNCHANGED <<users_json, books_json, written>>

-----------------------------------------------------------------------------
(* The inventory (lines 1297-1855): InventoryItem, InventoryManager,       *)
(* OrderManager and the handlers of the windows. A text is the sequence of *)
(* its characters. An item is kept with its dict key, id, name, quantity   *)
(* and threshold; reorder_amount, group, supplier_id, last_reordered, and  *)
(* the order_id and date of an order, are carried along by the code and    *)
(* decide nothing here.                                                    *)

Digits == <<"0", "1", "2", "3", "4", "5", "6", "7", "8", "9">>
IsDigit(c) == \E d \in 1..10 : Digits[d] = c
DigitValue(c) == CHOOSE d \in 0..9 : Digits[d + 1] = c

\* str.strip()
RECURSIVE LStrip(_)
LStrip(s) == IF s # <<>> /\ Head(s) = " " THEN LStrip(Tail(s)) ELSE s
RECURSIVE RStrip(_)
RStrip(s) ==
    IF s # <<>> /\ s[Len(s)] = " " THEN RStrip(SubSeq(s, 1, Len(s) - 1)) ELSE s
Strip(s) == RStrip(LStrip(s))

RECURSIVE DigitsValue(_, _)
DigitsValue(s, acc) ==
    IF s = <<>> THEN acc ELSE DigitsValue(Tail(s), 10 * acc + DigitValue(Head(s)))

\* int(text): the integer, or ValueError
ParseInt(text) ==
    LET t == Strip(text)
        signed == t # <<>> /\ Head(t) \in {"-", "+"}
        body == IF signed THEN Tail(t) ELSE t
    IN  IF body # <<>> /\ \A i \in 1..Len(body) : IsDigit(body[i])
        THEN [ok |-> TRUE,
              value |-> IF signed /\ Head(t) = "-" THEN 0 - DigitsValue(body, 0)
                        ELSE DigitsValue(body, 0)]
        ELSE [ok |-> FALSE, value |-> 0]

\* str(n) of a natural number
RECURSIVE Str(_)
Str(n) == IF n < 10 THEN <<Digits[n + 1]>> ELSE Str(n \div 10) \o <<Digits[(n % 10) + 1]>>

\* f"{i.id} - {i.name}", line 1532
Sep == <<" ", "-", " ">>
ComboText(item) == item.id \o Sep \o item.name

\* text.split(" - ")[0], line 1546
RECURSIVE SplitFirst(_)
SplitFirst(s) ==
    IF Len(s) < Len(Sep) THEN s
    ELSE IF SubSeq(s, 1, Len(Sep)) = Sep THEN <<>>
    ELSE LET rest == SplitFirst(Tail(s))
         IN  IF Len(rest) = Len(s) - 1 /\ ~(\E i \in 1..(Len(s) - Len(Sep)) :
                                              SubSeq(s, i + 1, i + Len(Sep)) = Sep)
             THEN s
             ELSE <<Head(s)>> \o rest

NoInventoryFile == [exists |-> FALSE, data |-> <<>>]
InventoryFile(data) == [exists |-> TRUE, data |-> data]

\* InventoryItem.needs_reorder, lines 1308-1309
needs_reorder(item) == item.quantity < item.threshold

\* InventoryManager.load_data, lines 1331-1343
manager_load_data(file) == IF file.exists THEN file.data ELSE <<>>

\* InventoryManager.save_data, lines 1346-1349
save_data(its) == InventoryFile(its)

\* OrderManager.save_orders, lines 1443-1445
save_orders(os) == InventoryFile(os)

\* the key of the dict is taken: `item.id in self.items`
HasKey(its, k) == \E i \in 1..Len(its) : its[i].key = k
KeyIndex(its, k) == CHOOSE i \in 1..Len(its) : its[i].key = k

\* the loops of lines 1380-1383 and 1392-1395: the first item whose id
\* matches after strip(), or 0
Matches(item, item_id) == Strip(item.id) = Strip(item_id)
FindTarget(its, item_id) ==
    IF \E i \in 1..Len(its) : Matches(its[i], item_id)
    THEN CHOOSE i \in 1..Len(its) :
            /\ Matches(its[i], item_id)
            /\ \A j \in 1..(i - 1) : ~Matches(its[j], item_id)
    ELSE 0

add_item_overwrite(its, item) ==
    IF HasKey(its, item.id)
    THEN [ret |-> FALSE,
          items |-> [i \in 1..Len(its) |->
                        IF its[i].key = item.id THEN [item EXCEPT !.key = item.id]
                        ELSE its[i]],
          saved |-> TRUE]
    ELSE [ret |-> TRUE, items |-> Append(its, [item EXCEPT !.key = item.id]),
          saved |-> TRUE]

\* InventoryManager.add_item, lines 1352-1357: (return value, items)
add_item(its, item) ==
    IF HasKey(its, item.id)
    THEN [ret |-> FALSE, items |-> its, saved |-> FALSE]
    ELSE [ret |-> TRUE, items |-> Append(its, [item EXCEPT !.key = item.id]),
          saved |-> TRUE]

set_quantity_unchecked(its, item_id, new_quantity) ==
    LET target == FindTarget(its, item_id)
        q == ParseInt(new_quantity)
    IN  IF target = 0 THEN [ret |-> FALSE, items |-> its, saved |-> FALSE]
        ELSE IF ~q.ok THEN [ret |-> FALSE, items |-> its, saved |-> FALSE]
        ELSE [ret |-> TRUE, items |-> [its EXCEPT ![target].quantity = q.value],
              saved |-> TRUE]

\* InventoryManager.set_quantity, lines 1389-1409
set_quantity(its, item_id, new_quantity) ==
    LET target == FindTarget(its, item_id)
        q == ParseInt(new_quantity)
    IN  IF target = 0 THEN [ret |-> FALSE, items |-> its, saved |-> FALSE]
        ELSE IF ~q.ok THEN [ret |-> FALSE, items |-> its, saved |-> FALSE]
        ELSE IF q.value < 0 THEN [ret |-> FALSE, items |-> its, saved |-> FALSE]
        ELSE [ret |-> TRUE, items |-> [its EXCEPT ![target].quantity = q.value],
              saved |-> TRUE]

\* InventoryManager.delete_item, lines 1377-1387
delete_item(its, item_id) ==
    LET k == FindTarget(its, item_id)
    IN  IF k = 0 THEN [ret |-> FALSE, items |-> its]
        ELSE [ret |-> TRUE,
              items |-> SubSeq(its, 1, k - 1) \o SubSeq(its, k + 1, Len(its))]

\* OrderManager.create_order, lines 1447-1458
create_order(os, item_id, item_name, quantity) ==
    Append(os, [item_id |-> item_id, item_name |-> item_name, quantity |-> quantity])

\* InventoryGUI.highlight_low_stock_rows, lines 1773-1791
highlight_low_stock_rows(rows) ==
    [r \in 1..Len(rows) |->
        [rows[r] EXCEPT !.tags = IF rows[r].quantity <= rows[r].threshold
                                 THEN "low_stock" ELSE ""]]

\* InventoryGUI.load_table, lines 1755-1771
load_table(its) ==
    highlight_low_stock_rows(
        [i \in 1..Len(its) |->
            [id |-> its[i].id, quantity |-> its[i].quantity,
             threshold |-> its[i].threshold, tags |-> ""]])

\* InventoryGUI.check_all_thresholds, lines 1793-1798: the items of the alert,
\* none when no alert is shown
SelectLow(its) ==
    LET RECURSIVE Sel(_)
        Sel(s) == IF s = <<>> THEN <<>>
                  ELSE IF needs_reorder(Head(s)) THEN <<Head(s).key>> \o Sel(Tail(s))
                  ELSE Sel(Tail(s))
    IN  Sel(its)
check_all_thresholds(its) == SelectLow(its)

NoHandler == [op |-> "none", ret |-> "none"]

\* InventoryGUI has not been constructed
InvIdle ==
    /\ gui = "not started"
    /\ items = <<>>
    /\ orders = <<>>
    /\ table = <<>>
    /\ alert = <<>>
    /\ inv_last = NoHandler
    /\ inventory_json = NoInventoryFile
    /\ orders_json = NoInventoryFile

\* InventoryGUI.__init__, lines 1684-1695, with InventoryManager.__init__
\* and OrderManager.__init__
inventory_gui_init ==
    /\ gui = "not started"
    /\ gui' = "running"
    /\ items' = manager_load_data(inventory_json)
    /\ orders' = IF orders_json.exists THEN orders_json.data ELSE <<>>
    /\ table' = load_table(items')
    /\ alert' = check_all_thresholds(items')
    /\ inv_last' = [NoHandler EXCEPT !.op = "__init__"]
    /\ UNCHANGED <<inventory_json, orders_json>>

\* AddItemWindow.save_item, lines 1493-1514
save_item(item_id, name, quantity_text, threshold_text) ==
    /\ gui = "running"
    /\ LET q == ParseInt(quantity_text)
           t == ParseInt(threshold_text)
       IN  IF ~q.ok \/ ~t.ok
           THEN /\ inv_last' = [op |-> "save_item", ret |-> "ValueError"]
                /\ UNCHANGED <<items, inventory_json, table>>
           ELSE LET r == add_item(items, [key |-> item_id, id |-> item_id,
                                          name |-> name, quantity |-> q.value,
                                          threshold |-> t.value])
                IN  /\ items' = r.items
                    /\ inventory_json' = IF r.saved THEN save_data(r.items)
                                         ELSE inventory_json
                    /\ table' = IF r.ret THEN load_table(r.items) ELSE table
                    /\ inv_last' = [op |-> "save_item",
                                    ret |-> IF r.ret THEN "True" ELSE "False"]
    /\ alert' = <<>>
    /\ UNCHANGED <<gui, orders, orders_json>>

\* UpdateStockWindow.apply_update, lines 1654-1677, on the selected row of
\* the window's table: its id, the quantity it shows and its NEW_QTY cell
apply_update(item_id, shown_quantity, new_qty_cell) ==
    /\ gui = "running"
    /\ LET new_q == IF Strip(new_qty_cell) # <<>> THEN Strip(new_qty_cell)
                    ELSE Str(shown_quantity)
           r == set_quantity(items, item_id, new_q)
       IN  /\ items' = r.items
           /\ inventory_json' = IF r.saved THEN save_data(r.items) ELSE inventory_json
           /\ table' = IF r.ret THEN load_table(r.items) ELSE table
           /\ inv_last' = [op |-> "set_quantity",
                           ret |-> IF r.ret THEN "True" ELSE "False"]
    /\ alert' = <<>>
    /\ UNCHANGED <<gui, orders, orders_json>>

\* OrderWindow.place_order, lines 1541-1570, with InventoryGUI.after_order
place_order(item_var, qty_entry) ==
    /\ gui = "running"
    /\ LET item_id == SplitFirst(item_var)
           qty == ParseInt(qty_entry)
           last(ret) == [op |-> "place_order", ret |-> ret]
       IN  IF item_var = <<>>
           THEN /\ inv_last' = last("Select an item")
                /\ alert' = <<>>
                /\ UNCHANGED <<items, orders, table, inventory_json, orders_json>>
           ELSE IF ~HasKey(items, item_id)
           THEN /\ inv_last' = last("KeyError")
                /\ alert' = <<>>
                /\ UNCHANGED <<items, orders, table, inventory_json, orders_json>>
           ELSE IF ~qty.ok
           THEN /\ inv_last' = last("Invalid quantity")
                /\ alert' = <<>>
                /\ UNCHANGED <<items, orders, table, inventory_json, orders_json>>
           ELSE IF qty.value <= 0
           THEN /\ inv_last' = last("Quantity must be positive")
                /\ alert' = <<>>
                /\ UNCHANGED <<items, orders, table, inventory_json, orders_json>>
           ELSE LET k == KeyIndex(items, item_id)
                IN  /\ orders' = create_order(orders, item_id, items[k].name, qty.value)
                    /\ orders_json' = save_orders(orders')
                    /\ items' = [items EXCEPT ![k].quantity = @ + qty.value]
                    /\ inventory_json' = save_data(items')
                    /\ table' = load_table(items')
                    /\ alert' = check_all_thresholds(items')
                    /\ inv_last' = last("Order Placed")
    /\ UNCHANGED gui

\* InventoryGUI.delete_selected, lines 1826-1849, confirmed by the user
delete_selected(row) ==
    /\ gui = "running"
    /\ row \in 1..Len(table)
    /\ LET r == delete_item(items, table[row].id)
       IN  /\ items' = r.items
           /\ inventory_json' = IF r.ret THEN save_data(r.items) ELSE inventory_json
           /\ table' = IF r.ret THEN load_table(r.items) ELSE table
           /\ alert' = IF r.ret THEN check_all_thresholds(r.items) ELSE <<>>
           /\ inv_last' = [op |-> "delete_selected",
                           ret |-> IF r.ret THEN "True" ELSE "False"]
    /\ UNCHANGED <<gui, orders, orders_json>>

-----------------------------------------------------------------------------
(* The end of App.compute (lines 1176-1220) on one thread: the two solver  *)
(* calls, build_edges and GraphDrawer.draw.                                *)

\* ["Start"] + self.point_labels with the fallback labels of line 1173
Labels(pts) == <<"Start">> \o [i \in 1..Len(pts) |-> "Location " \o ToString(i)]

\* [self.start_loc] + [(p[0], p[1]) for p in self.points], line 1198
NodeCoords(start_loc, pts) == <<start_loc>> \o [i \in 1..Len(pts) |-> Pt(pts, i - 1)]

\* build_edges, lines 1200-1212
RECURSIVE BuildEdgesFrom(_, _, _, _, _, _)
BuildEdgesFrom(order, start_loc, pts, pos, prev_idx, prev_point) ==
    IF pos > Len(order)
    THEN << <<prev_idx, 0, haversine(prev_point, start_loc)>> >>
    ELSE LET pt == Pt(pts, order[pos])
         IN  << <<prev_idx, pos, haversine(prev_point, pt)>> >>
             \o BuildEdgesFrom(order, start_loc, pts, pos + 1, pos, pt)

build_edges(order, start_loc, pts) == BuildEdgesFrom(order, start_loc, pts, 1, 0, start_loc)

\* GraphDrawer.draw, lines 915-955: the arrows on the canvas, each from the
\* place of node i to the place of node j with the text of d
GraphDrawer_draw(labels, coords, edges) ==
    IF labels = <<>> \/ coords = <<>> \/ Len(labels) # Len(coords) THEN <<>>
    ELSE [e \in 1..Len(edges) |->
             [from |-> coords[edges[e][1] + 1], to |-> coords[edges[e][2] + 1],
              text |-> edges[e][3]]]

NoDraw ==
    [pc |-> "idle", start_loc |-> <<0, 0>>, points |-> <<>>, order_nn |-> <<>>,
     order_bf |-> <<>>, nn_edges |-> <<>>, bf_edges |-> <<>>, nn_canvas |-> <<>>,
     bf_canvas |-> <<>>]

\* App.compute is not running
DrawIdle == draw = NoDraw

\* lines 1176-1182
draw_solve ==
    /\ draw.pc = "geocoded"
    /\ LET rn == NNCompute(draw.start_loc, draw.points)
           rb == BFCompute(draw.start_loc, draw.points)
       IN  /\ ~rn.raised
           /\ ~rb.raised
           /\ draw' = [draw EXCEPT !.pc = "solved", !.order_nn = rn.order,
                                   !.order_bf = rb.order]

\* line 1214
draw_nn_edges ==
    /\ draw.pc = "solved"
    /\ draw' = [draw EXCEPT !.pc = "nn_edges",
                   !.nn_edges = build_edges(draw.order_nn, draw.start_loc, draw.points)]

\* line 1215
draw_bf_edges ==
    /\ draw.pc = "nn_edges"
    /\ draw' = [draw EXCEPT !.pc = "bf_edges",
                   !.bf_edges = build_edges(draw.order_bf, draw.start_loc, draw.points)]

\* lines 1217-1220
draw_graphs ==
    /\ draw.pc = "bf_edges"
    /\ LET labels == Labels(draw.points)
           coords == NodeCoords(draw.start_loc, draw.points)
       IN  draw' = [draw EXCEPT !.pc = "drawn",
                       !.nn_canvas = GraphDrawer_draw(labels, coords, draw.nn_edges),
                       !.bf_canvas = GraphDrawer_draw(labels, coords, draw.bf_edges)]

-----------------------------------------------------------------------------
(* The solvers called on one request, any number of times in any order. *)

\* no solver call has been made
SolverIdle ==
    /\ pc = "idle"
    /\ nn = NoFrameNN
    /\ bf = NoFrameBF
    /\ ret_nn = NoResult
    /\ ret_bf = NoResult
    /\ first_nn = NoResult
    /\ first_bf = NoResult
    /\ calls_nn = 0
    /\ calls_bf = 0
    /\ iters = 0
    /\ evals = 0

\* App.__init__, lines 973-980, with the start field still empty
AppConstructed ==
    /\ start_entry = ""
    /\ destinations_raw = <<>>
    /\ self_start_loc = None
    /\ self_points = NoRef
    /\ heap = <<>>
    /\ self_order_nn = None
    /\ self_order_bf = None
    /\ threads = [t \in Threads |-> NotStarted]

\* haversine has not been called on its own
HavIdle == hav = [a |-> <<0, 0>>, b |-> <<0, 0>>, ab |-> NotCalled, ba |-> NotCalled,
                  aa |-> NotCalled]

\* no locations.json yet, nothing saved or loaded
FilesIdle ==
    /\ locations_json = NoFile
    /\ last_save = None
    /\ last_load = [outcome |-> "", start_loc |-> None, points |-> <<>>,
                    saved |-> None, count |-> 0]

OtherIdle == HavIdle /\ FilesIdle /\ RecIdle /\ LoadIdle /\ InvIdle /\ DrawIdle

Init ==
    /\ start \in Coords
    /\ points \in Requests(MaxN)
    /\ SolverIdle
    /\ AppConstructed
    /\ OtherIdle

\* nn.compute(start, points) is called
NNCall ==
    /\ pc = "idle"
    /\ calls_nn < MaxCalls
    /\ pc' = "nn"
    /\ nn' = NNEnter(start, points)
    /\ iters' = 0
    /\ UNCHANGED <<start, points, bf, ret_nn, ret_bf, first_nn, first_bf,
                   calls_nn, calls_bf, evals>>
    /\ UNCHANGED <<app_vars, other_vars>>

\* while unvisited: one pass of the body. With no candidate below the
\* sentinel, best is None and points[None] raises TypeError.
NNIter ==
    /\ pc = "nn"
    /\ nn.unvisited # <<>>
    /\ iters' = iters + 1
    /\ IF Nearest(nn.current, points, nn.unvisited).best = NoIndex
       THEN /\ pc' = "idle"
            /\ nn' = NoFrameNN
            /\ ret_nn' = Raised
            /\ first_nn' = IF calls_nn = 0 THEN Raised ELSE first_nn
            /\ calls_nn' = calls_nn + 1
       ELSE /\ nn' = NNBody(nn, points)
            /\ UNCHANGED <<pc, ret_nn, first_nn, calls_nn>>
    /\ points' = NNPointsAfter(points)
    /\ UNCHANGED <<start, bf, ret_bf, first_bf, calls_bf, evals>>
    /\ UNCHANGED <<app_vars, other_vars>>

\* the loop is left: lines 852-853
NNReturn ==
    /\ pc = "nn"
    /\ nn.unvisited = <<>>
    /\ LET r == Returned(nn.order, NNClose(nn, start))
       IN  /\ ret_nn' = r
           /\ first_nn' = IF calls_nn = 0 THEN r ELSE first_nn
    /\ calls_nn' = calls_nn + 1
    /\ pc' = "idle"
    /\ nn' = NoFrameNN
    /\ UNCHANGED <<start, points, bf, ret_bf, first_bf, calls_bf, iters, evals>>
    /\ UNCHANGED <<app_vars, other_vars>>

\* bf.compute(start, points) is called
BFCall ==
    /\ pc = "idle"
    /\ calls_bf < MaxCalls
    /\ pc' = "bf"
    /\ bf' = BFEnter
    /\ evals' = 0
    /\ UNCHANGED <<start, points, nn, ret_nn, ret_bf, first_nn, first_bf,
                   calls_nn, calls_bf, iters>>
    /\ UNCHANGED <<app_vars, other_vars>>

\* for perm in permutations(...): one pass of the body
BFIter ==
    /\ pc = "bf"
    /\ bf.k < Factorial(Len(points))
    /\ bf' = BFBody(bf, start, points)
    /\ evals' = evals + 1
    /\ points' = BFPointsAfter(points)
    /\ UNCHANGED <<start, pc, nn, ret_nn, ret_bf, first_nn, first_bf,
                   calls_nn, calls_bf, iters>>
    /\ UNCHANGED <<app_vars, other_vars>>

\* the iterator is exhausted: line 875
BFReturn ==
    /\ pc = "bf"
    /\ bf.k = Factorial(Len(points))
    /\ LET r == BFResult(bf)
       IN  /\ ret_bf' = r
           /\ first_bf' = IF calls_bf = 0 THEN r ELSE first_bf
    /\ calls_bf' = calls_bf + 1
    /\ pc' = "idle"
    /\ bf' = NoFrameBF
    /\ UNCHANGED <<start, points, nn, ret_nn, first_nn, calls_nn, iters, evals>>
    /\ UNCHANGED <<app_vars, other_vars>>

Next == NNCall \/ NNIter \/ NNReturn \/ BFCall \/ BFIter \/ BFReturn

Spec == Init /\ [][Next]_vars

-----------------------------------------------------------------------------
(* The application: the form is filled in and Compute is pressed. *)

AppInit ==
    /\ start = <<0, 0>>
    /\ points = <<>>
    /\ SolverIdle
    /\ AppConstructed
    /\ OtherIdle

AddLocation == (\E pcode \in (Queries \cup {""}) : add_location(pcode)) /\ UNCHANGED <<solver_vars, other_vars>>
TypeStart == (\E q \in {"", "S"} : type_start(q)) /\ UNCHANGED <<solver_vars, other_vars>>
ThreadCompute == (\E t \in Threads : thread_compute(t)) /\ UNCHANGED <<solver_vars, other_vars>>
ComputeReadStart == (\E t \in Threads : compute_read_start(t)) /\ UNCHANGED <<solver_vars, other_vars>>
ComputeReadDests == (\E t \in Threads : compute_read_dests(t)) /\ UNCHANGED <<solver_vars, other_vars>>
ComputeGeocodeStart ==
    (\E t \in Threads, ok \in BOOLEAN : compute_geocode_start(t, ok)) /\ UNCHANGED <<solver_vars, other_vars>>
ComputeNewPoints == (\E t \in Threads : compute_new_points(t)) /\ UNCHANGED <<solver_vars, other_vars>>
ComputeGeocodeDest ==
    (\E t \in Threads, ok \in BOOLEAN : compute_geocode_dest(t, ok)) /\ UNCHANGED <<solver_vars, other_vars>>
ComputeCallNN == (\E t \in Threads : compute_call_nn(t)) /\ UNCHANGED <<solver_vars, other_vars>>
ComputeReturnNN == (\E t \in Threads : compute_return_nn(t)) /\ UNCHANGED <<solver_vars, other_vars>>
ComputeCallBF == (\E t \in Threads : compute_call_bf(t)) /\ UNCHANGED <<solver_vars, other_vars>>
ComputeReturnBF == (\E t \in Threads : compute_return_bf(t)) /\ UNCHANGED <<solver_vars, other_vars>>

AppNext ==
    \/ AddLocation
    \/ TypeStart
    \/ ThreadCompute
    \/ ComputeReadStart
    \/ ComputeReadDests
    \/ ComputeGeocodeStart
    \/ ComputeNewPoints
    \/ ComputeGeocodeDest
    \/ ComputeCallNN
    \/ ComputeReturnNN
    \/ ComputeCallBF
    \/ ComputeReturnBF

SpecApp == AppInit /\ [][AppNext]_vars

-----------------------------------------------------------------------------
(* The application with its file buttons: the form is filled in, Compute is *)
(* pressed once, and Save Locations and Load Locations are pressed.         *)

SaveLocations == save_locations /\ UNCHANGED <<solver_vars, hav, rec_vars, load_vars, inv_vars, draw_vars>>
LoadLocations == load_locations /\ UNCHANGED <<solver_vars, hav, rec_vars, load_vars, inv_vars, draw_vars>>

\* a step of the one compute thread
ComputeOnce ==
    /\ \/ thread_compute("t1")
       \/ compute_read_start("t1")
       \/ compute_read_dests("t1")
       \/ \E ok \in BOOLEAN : compute_geocode_start("t1", ok)
       \/ compute_new_points("t1")
       \/ \E ok \in BOOLEAN : compute_geocode_dest("t1", ok)
       \/ compute_call_nn("t1")
       \/ compute_return_nn("t1")
       \/ compute_call_bf("t1")
       \/ compute_return_bf("t1")
    /\ UNCHANGED <<solver_vars, other_vars>>

FileNext ==
    \/ AddLocation
    \/ TypeStart
    \/ ComputeOnce
    \/ SaveLocations
    \/ LoadLocations

SpecFile == AppInit /\ [][FileNext]_vars

-----------------------------------------------------------------------------
(* haversine called on its own, on pairs of valid coordinates. *)

\* valid (lat, lon) pairs in degrees: cities, the poles, the antimeridian
HavCoords ==
    { <<0, 0>>, <<12, 0>>, <<-12, -180>>, <<0, -20>>, <<10, 0>>, <<51, -1>>,
      <<90, 0>>, <<-90, -180>>, <<41, -74>>, <<-34, -58>> }

HavInit ==
    /\ start = <<0, 0>>
    /\ points = <<>>
    /\ SolverIdle
    /\ AppConstructed
    /\ DrawIdle
    /\ InvIdle
    /\ LoadIdle
    /\ FilesIdle
    /\ RecIdle
    /\ \E a \in HavCoords, b \in HavCoords :
           hav = [a |-> a, b |-> b, ab |-> NotCalled, ba |-> NotCalled, aa |-> NotCalled]

\* haversine(a, b)
HavAB ==
    /\ hav.ab = NotCalled
    /\ hav' = [hav EXCEPT !.ab = haversineCalc(hav.a, hav.b)]
    /\ UNCHANGED <<solver_vars, app_vars, file_vars, rec_vars, load_vars, inv_vars, draw_vars>>

\* haversine(b, a)
HavBA ==
    /\ hav.ba = NotCalled
    /\ hav' = [hav EXCEPT !.ba = haversineCalc(hav.b, hav.a)]
    /\ UNCHANGED <<solver_vars, app_vars, file_vars, rec_vars, load_vars, inv_vars, draw_vars>>

\* haversine(a, a)
HavAA ==
    /\ hav.aa = NotCalled
    /\ hav' = [hav EXCEPT !.aa = haversineCalc(hav.a, hav.a)]
    /\ UNCHANGED <<solver_vars, app_vars, file_vars, rec_vars, load_vars, inv_vars, draw_vars>>

HavNext == HavAB \/ HavBA \/ HavAA

SpecHav == HavInit /\ [][HavNext]_vars

-----------------------------------------------------------------------------
(* recommend_books called on a recommender over some users and books. *)

\* RecommenderSystem(users, books), lines 29-31: any purchases of the known
\* books (one of which the catalogue may lack)
RecInit ==
    /\ start = <<0, 0>>
    /\ points = <<>>
    /\ SolverIdle
    /\ AppConstructed
    /\ DrawIdle
    /\ InvIdle
    /\ LoadIdle
    /\ HavIdle
    /\ FilesIdle
    /\ \E bought \in [1..Len(UserIds) -> SUBSET BookIds] :
           users = [i \in 1..Len(UserIds) |->
                       [user_id |-> UserIds[i], purchased_books |-> bought[i]]]
    /\ books \in {BookIds, BookIds \ {"B3"}}
    /\ rec = NoCall
    /\ msu = NoCallMSU

\* recommend_books(target_user_id, max_recs) is called, lines 55-64
RecommendCall ==
    /\ rec.pc = "idle"
    /\ ~msu.called
    /\ \E i \in 1..Len(users), max_recs \in 0..MaxRecs :
           rec' = [NoCall EXCEPT !.pc = "similar", !.target = users[i].user_id,
                                 !.max_recs = max_recs]
    /\ UNCHANGED <<users, books, msu>>
    /\ UNCHANGED <<solver_vars, app_vars, hav, file_vars, load_vars, inv_vars, draw_vars>>

\* line 63: similar_users = self.most_similar_users(target_user_id)
MostSimilarUsers ==
    /\ rec.pc = "similar"
    /\ rec' = [rec EXCEPT !.pc = "score", !.k = 1,
                          !.similar = most_similar_users(users, rec.target, TopK)]
    /\ UNCHANGED <<users, books, msu>>
    /\ UNCHANGED <<solver_vars, app_vars, hav, file_vars, load_vars, inv_vars, draw_vars>>

\* lines 66-70: one pass of the loop over similar_users
ScoreUser ==
    /\ rec.pc = "score"
    /\ rec.k <= Len(rec.similar)
    /\ \E order \in Iterations(rec.similar[rec.k][1].purchased_books) :
           rec' = [rec EXCEPT !.k = @ + 1,
                              !.score_map = ScoreBooks(@, order, rec.similar[rec.k][2],
                                                       UserOf(users, rec.target))]
    /\ UNCHANGED <<users, books, msu>>
    /\ UNCHANGED <<solver_vars, app_vars, hav, file_vars, load_vars, inv_vars, draw_vars>>

\* lines 72-78
RecommendReturn ==
    /\ rec.pc = "score"
    /\ rec.k > Len(rec.similar)
    /\ rec' = [rec EXCEPT !.pc = "done",
                          !.recs = Recs(rec.score_map, rec.max_recs, books)]
    /\ UNCHANGED <<users, books, msu>>
    /\ UNCHANGED <<solver_vars, app_vars, hav, file_vars, load_vars, inv_vars, draw_vars>>

\* most_similar_users(target_user_id, top_k) is called on its own, as the
\* explanation window does (line 572), and runs to its return; one call of
\* either method is followed in a behaviour
MostSimilarCall ==
    /\ rec.pc = "idle"
    /\ ~msu.called
    /\ \E i \in 1..Len(users), top_k \in 0..MaxTopK :
           msu' = [called |-> TRUE, target |-> users[i].user_id, top_k |-> top_k,
                   result |-> most_similar_users(users, users[i].user_id, top_k)]
    /\ UNCHANGED <<users, books, rec>>
    /\ UNCHANGED <<solver_vars, app_vars, hav, file_vars, load_vars, inv_vars, draw_vars>>

RecNext ==
    \/ RecommendCall \/ MostSimilarUsers \/ ScoreUser \/ RecommendReturn
    \/ MostSimilarCall

SpecRec == RecInit /\ [][RecNext]_vars

-----------------------------------------------------------------------------
(* load_data called with users.json and books.json in any of their states. *)

\* entries as a hand-edited file may hold them
UserLists ==
    { <<>>,
      << [user_id |-> "U9", name |-> "Zed", purchased_books |-> <<"B1", "B1">>],
         [user_id |-> "U8"] >>,
      << [name |-> "nobody"] >> }
BookLists ==
    { << [book_id |-> "B9", title |-> "Nine", genre |-> "Test"], [book_id |-> "B8"] >>,
      << [title |-> "untitled"] >> }

UsersFiles ==
    {Missing, Text(JBad), Text(JNum), Text(JDict("books", DEFAULT_BOOKS))}
    \cup { Text(JDict("users", l)) : l \in UserLists }
    \cup { Text(JList(l)) : l \in UserLists }
BooksFiles ==
    {Missing, Text(JBad), Text(JNum), Text(JDict("users", DEFAULT_USERS))}
    \cup { Text(JDict("books", l)) : l \in BookLists }
    \cup { Text(JList(l)) : l \in BookLists }

LoadInit ==
    /\ start = <<0, 0>>
    /\ points = <<>>
    /\ SolverIdle
    /\ AppConstructed
    /\ DrawIdle
    /\ InvIdle
    /\ HavIdle
    /\ FilesIdle
    /\ RecIdle
    /\ users_json \in UsersFiles
    /\ books_json \in BooksFiles
    /\ written = {}
    /\ ld = [NoLoad EXCEPT !.found_users = users_json, !.found_books = books_json]

\* load_data() is called, lines 126-128
LoadCall ==
    /\ ld.pc = "idle"
    /\ ld' = [ld EXCEPT !.pc = "users"]
    /\ UNCHANGED <<users_json, books_json, written>>
    /\ UNCHANGED <<solver_vars, app_vars, hav, file_vars, rec_vars, inv_vars, draw_vars>>

LoadUsers == load_users /\ UNCHANGED <<solver_vars, app_vars, hav, file_vars, rec_vars, inv_vars, draw_vars>>
LoadBooks == load_books /\ UNCHANGED <<solver_vars, app_vars, hav, file_vars, rec_vars, inv_vars, draw_vars>>
LoadBuild == load_build /\ UNCHANGED <<solver_vars, app_vars, hav, file_vars, rec_vars, inv_vars, draw_vars>>

LoadNext == LoadCall \/ LoadUsers \/ LoadBooks \/ LoadBuild

SpecLoad == LoadInit /\ [][LoadNext]_vars

-----------------------------------------------------------------------------
(* The inventory window used on a small stock. *)

MaxQty == 2
MaxOrders == 1

ItemIds == { <<"A">>, <<"A", " ", "-", " ", "B">> }
ItemNames == { <<"p">> }
RequestIds == ItemIds \cup { <<" ", "A">>, <<"Z">> }
QtyTexts ==
    { Str(n) : n \in 0..MaxQty }
    \cup { <<" ", "1", " ">>, <<"-", "1">>, <<"x">>, <<"1", ".", "5">>, <<>> }
ThresholdTexts == { <<"1">> }

\* inventory.json as the program leaves it
InventoryFiles ==
    { NoInventoryFile,
      InventoryFile(<< [key |-> <<"A">>, id |-> <<"A">>, name |-> <<"p">>,
                        quantity |-> 1, threshold |-> 1] >>) }

InvInit ==
    /\ start = <<0, 0>>
    /\ points = <<>>
    /\ SolverIdle
    /\ AppConstructed
    /\ DrawIdle
    /\ HavIdle
    /\ FilesIdle
    /\ RecIdle
    /\ LoadIdle
    /\ gui = "not started"
    /\ items = <<>>
    /\ orders = <<>>
    /\ table = <<>>
    /\ alert = <<>>
    /\ inv_last = NoHandler
    /\ inventory_json \in InventoryFiles
    /\ orders_json = NoInventoryFile

WithinMaxQty == \A i \in 1..Len(items') : items'[i].quantity <= MaxQty

InventoryGUIInit ==
    /\ inventory_gui_init
    /\ UNCHANGED <<solver_vars, app_vars, hav, file_vars, rec_vars, load_vars, draw_vars>>

SaveItem ==
    /\ \E item_id \in ItemIds, name \in ItemNames, q \in QtyTexts, t \in ThresholdTexts :
          save_item(item_id, name, q, t)
    /\ UNCHANGED <<solver_vars, app_vars, hav, file_vars, rec_vars, load_vars, draw_vars>>

ApplyUpdate ==
    /\ \E item_id \in RequestIds, cell \in QtyTexts :
          \E shown \in IF Strip(cell) = <<>> THEN 0..MaxQty ELSE {0} :
              apply_update(item_id, shown, cell)
    /\ UNCHANGED <<solver_vars, app_vars, hav, file_vars, rec_vars, load_vars, draw_vars>>

PlaceOrder ==
    /\ Len(orders) < MaxOrders
    /\ \E item_var \in { <<>> } \cup { ComboText(items[i]) : i \in 1..Len(items) },
          qty_entry \in QtyTexts :
          place_order(item_var, qty_entry)
    /\ WithinMaxQty
    /\ UNCHANGED <<solver_vars, app_vars, hav, file_vars, rec_vars, load_vars, draw_vars>>

DeleteSelected ==
    /\ \E row \in 1..Len(table) : delete_selected(row)
    /\ UNCHANGED <<solver_vars, app_vars, hav, file_vars, rec_vars, load_vars, draw_vars>>

InvNext == InventoryGUIInit \/ SaveItem \/ ApplyUpdate \/ PlaceOrder \/ DeleteSelected

SpecInv == InvInit /\ [][InvNext]_vars

-----------------------------------------------------------------------------
(* App.compute from the geocoded request to the graphs. *)

\* compute goes on only with at least one destination, line 1149
DrawInit ==
    /\ start = <<0, 0>>
    /\ points = <<>>
    /\ SolverIdle
    /\ AppConstructed
    /\ HavIdle
    /\ FilesIdle
    /\ RecIdle
    /\ LoadIdle
    /\ InvIdle
    /\ \E st \in Coords, pts \in Requests(MaxN) \ { <<>> } :
          draw = [NoDraw EXCEPT !.pc = "geocoded", !.start_loc = st, !.points = pts]

DrawSolve ==
    /\ draw_solve
    /\ UNCHANGED <<solver_vars, app_vars, hav, file_vars, rec_vars, load_vars, inv_vars>>

DrawNNEdges ==
    /\ draw_nn_edges
    /\ UNCHANGED <<solver_vars, app_vars, hav, file_vars, rec_vars, load_vars, inv_vars>>

DrawBFEdges ==
    /\ draw_bf_edges
    /\ UNCHANGED <<solver_vars, app_vars, hav, file_vars, rec_vars, load_vars, inv_vars>>

DrawGraphs ==
    /\ draw_graphs
    /\ UNCHANGED <<solver_vars, app_vars, hav, file_vars, rec_vars, load_vars, inv_vars>>

DrawNext == DrawSolve \/ DrawNNEdges \/ DrawBFEdges \/ DrawGraphs

SpecDraw == DrawInit /\ [][DrawNext]_vars

-----------------------------------------------------------------------------
(* What the claims speak of, defined apart from the solvers' code. *)

N == Len(points)

\* order holds every index of 0..n-1 exactly once
IsPermutation(order, n) ==
    /\ Len(order) = n
    /\ \A i \in 0..(n - 1) : Cardinality({ j \in 1..n : order[j] = i }) = 1

\* every visiting order of n destinations
OrdersOf(n) ==
    { p \in [1..n -> 0..(n - 1)] : \A i, j \in 1..n : i # j => p[i] # p[j] }
OrdersTable == [n \in 0..MaxN |-> OrdersOf(n)]
AllOrders(n) == OrdersTable[n]

\* the k-th stop of the round trip along order: start, the destinations, start
Stop(order, k) ==
    IF k = 0 \/ k = Len(order) + 1 THEN start ELSE Pt(points, order[k])

RECURSIVE SumLegs(_, _)
SumLegs(order, k) ==
    IF k < 0 THEN 0
    ELSE SumLegs(order, k - 1) + haversine(Stop(order, k), Stop(order, k + 1))

\* start -> order[0] -> ... -> order[n-1] -> start
RoundTrip(order) == SumLegs(order, Len(order))

\* p comes before q, or is q, in lexicographic order
LexLeq(p, q) ==
    \/ p = q
    \/ \E i \in 1..Len(p) :
          /\ \A j \in 1..(i - 1) : p[j] = q[j]
          /\ p[i] < q[i]

Elems(s) == { s[i] : i \in 1..Len(s) }

\* the solver has returned at least once and no call is on the stack
DoneNN == pc = "idle" /\ calls_nn >= 1
DoneBF == pc = "idle" /\ calls_bf >= 1

-----------------------------------------------------------------------------
\* C1: for a non-empty destination list, BruteForceAlgorithm.compute returns
\* a permutation of the indices whose round trip has the returned total, and
\* no permutation has a shorter round trip.
C1_BruteForceMinimal ==
    (DoneBF /\ N >= 1) =>
        /\ ~ret_bf.raised
        /\ IsPermutation(ret_bf.order, N)
        /\ RoundTrip(ret_bf.order) = ret_bf.total
        /\ \A p \in AllOrders(N) : ret_bf.total <= RoundTrip(p)

\* the minimum is neither the first nor the last permutation tried
C1_Witness ==
    /\ DoneBF /\ N = 3
    /\ ret_bf.total < RoundTrip(<<0, 1, 2>>)
    /\ ret_bf.total < RoundTrip(<<2, 1, 0>>)

\* C2: for N >= 1 the order returned by each solver holds every index of
\* 0..N-1 exactly once.
C2_OrdersArePermutations ==
    /\ (DoneNN /\ N >= 1) => (~ret_nn.raised /\ IsPermutation(ret_nn.order, N))
    /\ (DoneBF /\ N >= 1) => (~ret_bf.raised /\ IsPermutation(ret_bf.order, N))

C2_Witness ==
    /\ DoneNN /\ DoneBF /\ N = 3
    /\ ret_nn.order # ret_bf.order
    /\ ret_nn.order # <<0, 1, 2>>

\* C3: for 1 <= N <= 8 the total of BruteForceAlgorithm.compute is at most
\* the total of NearestNeighbourAlgorithm.compute on the same request.
C3_ExactNotWorse ==
    (DoneNN /\ DoneBF /\ N >= 1 /\ N <= 8) =>
        /\ ~ret_nn.raised /\ ~ret_bf.raised
        /\ ret_bf.total <= ret_nn.total

\* the heuristic is strictly worse
C3_Witness ==
    DoneNN /\ DoneBF /\ N >= 1 /\ ret_bf.total < ret_nn.total

\* C4: every pass of the while loop appends an unvisited index at minimum
\* distance from the current position, the lowest such index on a tie.
C4_Step ==
    (pc = "nn" /\ pc' = "nn" /\ nn'.order # nn.order) =>
        LET c == nn'.order[Len(nn'.order)]
            D(i) == haversine(nn.current, Pt(points, i))
        IN  /\ nn'.order = Append(nn.order, c)
            /\ c \in Elems(nn.unvisited)
            /\ \A j \in Elems(nn.unvisited) :
                  /\ D(c) <= D(j)
                  /\ (D(j) = D(c)) => (c <= j)
C4_NearestLowestIndex == [][C4_Step]_vars

\* the first pass chose between two different points at the same distance
C4_Witness ==
    /\ pc = "nn" /\ Len(nn.order) >= 1
    /\ \E j \in 0..(N - 1) :
          /\ j > nn.order[1]
          /\ Pt(points, j) # Pt(points, nn.order[1])
          /\ haversine(start, Pt(points, j)) = haversine(start, Pt(points, nn.order[1]))

\* C5: the total each solver returns is the round trip of the order it
\* returns, the leg back to start counted once, and is not negative.
C5_TotalIsRoundTrip ==
    /\ (DoneNN /\ N >= 1) =>
          (~ret_nn.raised /\ ret_nn.total = RoundTrip(ret_nn.order) /\ ret_nn.total >= 0)
    /\ (DoneBF /\ N >= 1) =>
          (~ret_bf.raised /\ ret_bf.total = RoundTrip(ret_bf.order) /\ ret_bf.total >= 0)

\* the leg back to start is longer than nothing
C5_Witness ==
    /\ DoneNN /\ DoneBF /\ N = 3
    /\ haversine(Pt(points, ret_nn.order[3]), start) > 0
    /\ haversine(Pt(points, ret_bf.order[3]), start) > 0

\* C6: among the permutations with the minimum round trip,
\* BruteForceAlgorithm.compute returns the lexicographically first.
C6_FirstMinimumKept ==
    (DoneBF /\ N >= 1 /\ ~ret_bf.raised) =>
        \A p \in AllOrders(N) :
            (RoundTrip(p) = ret_bf.total) => LexLeq(ret_bf.order, p)

\* another permutation reaches the minimum
C6_Witness ==
    /\ DoneBF /\ N >= 2 /\ ~ret_bf.raised
    /\ \E p \in AllOrders(N) : p # ret_bf.order /\ RoundTrip(p) = ret_bf.total

\* C7 as claimed: given an empty destination list the solvers raise.
C7_EmptyRejected ==
    /\ (DoneNN /\ N = 0) => ret_nn.raised
    /\ (DoneBF /\ N = 0) => ret_bf.raised

\* C7 as the code has it: given an empty destination list each solver
\* returns the empty order with total 0 and raises nothing.
C7_EmptyReturnsDegenerate ==
    /\ (DoneNN /\ N = 0) => ret_nn = Returned(<<>>, 0)
    /\ (DoneBF /\ N = 0) => ret_bf = Returned(<<>>, 0)

C7_Witness == DoneNN /\ DoneBF /\ N = 0

\* C8: a run of App.compute calls a solver only if its start query and its
\* destination list were not empty and every geocoding it asked for
\* succeeded; a run that met one of these failures reported an error and
\* called no solver.
C8_SolversOnlyOnValidInput ==
    \A t \in Threads :
        LET th == threads[t]
        IN  /\ (th.called # {}) =>
                  /\ th.start_q # ""
                  /\ th.dests # <<>>
                  /\ Len(th.geo) = Len(th.dests) + 1
                  /\ Fail \notin Elems(th.geo)
                  /\ th.err = ""
            /\ (th.pc = "done" /\ (th.start_q = "" \/ th.dests = <<>> \/ Fail \in Elems(th.geo))) =>
                  /\ th.err # ""
                  /\ th.called = {}

\* one run went through both solvers, another stopped at a destination
\* the geocoder did not find
C8_Witness ==
    /\ threads["t1"].pc = "done" /\ threads["t1"].called = {"nn", "bf"}
    /\ threads["t2"].pc = "done" /\ threads["t2"].called = {}
    /\ Len(threads["t2"].geo) = 2 /\ threads["t2"].geo[2] = Fail

\* C9: for N = 1 both solvers return order [0] and twice the distance from
\* start to the only destination.
C9_SingleDestination ==
    (N = 1) =>
        /\ DoneNN => ret_nn = Returned(<<0>>, 2 * haversine(start, Pt(points, 0)))
        /\ DoneBF => ret_bf = Returned(<<0>>, 2 * haversine(start, Pt(points, 0)))

C9_Witness ==
    /\ N = 1 /\ DoneNN /\ DoneBF
    /\ Pt(points, 0) # start
    /\ ret_nn = ret_bf

-----------------------------------------------------------------------------
\* C11: NearestNeighbourAlgorithm.compute terminates on every list of N >= 1
\* points: while a call runs, the passes made so far plus the indices still
\* unvisited add up to N, every pass takes exactly one index out of
\* unvisited, the call can always take its next step, and it ends after
\* exactly N passes with an order that is a permutation of 0..N-1 and a
\* total.
C11_Counts ==
    /\ pc = "nn" => /\ iters + Len(nn.unvisited) = N
                    /\ Len(nn.order) = iters
    /\ (DoneNN /\ N >= 1) => /\ iters = N
                             /\ ~ret_nn.raised
                             /\ IsPermutation(ret_nn.order, N)
                             /\ ret_nn.total >= 0

C11_Pass ==
    (pc = "nn" /\ pc' = "nn") =>
        /\ Len(nn'.unvisited) = Len(nn.unvisited) - 1
        /\ Cardinality(Elems(nn.unvisited) \ Elems(nn'.unvisited)) = 1
        /\ Elems(nn'.unvisited) \subseteq Elems(nn.unvisited)

-----------------------------------------------------------------------------
\* C12: BruteForceAlgorithm.compute evaluates exactly N! candidate orders
\* (6 for N = 3, 24 for N = 4): while it runs, the number of evaluations made
\* is the position of the permutation iterator; when it has returned, it has
\* made as many evaluations as there are orders of N destinations, and the
\* orders it evaluated are all of them, so each was evaluated exactly once.
\* No evaluation is skipped by an early exit or a cap on N.
C12_EvaluatesAllOrders ==
    /\ pc = "bf" => /\ evals = bf.k
                    /\ evals <= Cardinality(AllOrders(N))
    /\ DoneBF => /\ evals = Cardinality(AllOrders(N))
                 /\ { permutations(N, k) : k \in 0..(evals - 1) } = AllOrders(N)

C12_Witness == DoneBF /\ N = 3 /\ evals = 6 /\ ~ret_bf.raised

-----------------------------------------------------------------------------
\* C13: neither solver modifies its inputs or anything but its own result:
\* every step of a solver call leaves the start point and the destination
\* list (length, order, coordinates) as they were passed and leaves the
\* application's state alone; a step of one solver leaves the other solver
\* and its result alone, and a solver's result changes only when it returns.
C13_Step ==
    /\ start' = start
    /\ points' = points
    /\ UNCHANGED <<app_vars, other_vars>>
    /\ pc = "nn" => UNCHANGED <<bf, ret_bf>>
    /\ pc = "bf" => UNCHANGED <<nn, ret_nn>>
    /\ pc' # "idle" => UNCHANGED <<ret_nn, ret_bf>>

C13_InputsUnchanged == [][C13_Step]_vars

C13_Witness ==
    /\ pc = "idle" /\ calls_nn = 1 /\ calls_bf = 1
    /\ ret_nn.order = <<1, 0, 2>>
    /\ ~ret_bf.raised

-----------------------------------------------------------------------------
\* C14: within one run of App.compute both solvers receive the same start
\* point and the same destination list, so the orders they return to that
\* run are permutations of the same index set 0..N-1, also when a second
\* compute started through thread_compute overlaps the first.
C14_SameRequest ==
    \A t \in Threads :
        (threads[t].pc = "done" /\ threads[t].called = {"nn", "bf"}) =>
            /\ threads[t].nn_args = threads[t].bf_args
            /\ Elems(threads[t].nn_ret.order) = Elems(threads[t].bf_ret.order)

\* C15: the destination list passed to a solver is read-only for the whole
\* solve call: while a thread is inside a solver, the list object it passed
\* still holds what it held when the solver was entered.
C15_ListReadOnly ==
    \A t \in Threads :
        threads[t].pc \in {"in_nn", "in_bf"} =>
            heap[threads[t].arg_ref] = threads[t].arg_list

-----------------------------------------------------------------------------
\* C16: haversine is symmetric and zero on identical points: for every pair
\* of valid coordinates a, b the calls haversine(a, b) and haversine(b, a)
\* return the same distance and haversine(a, a) returns 0.
C16_SymmetricAndZero ==
    /\ hav.ab # NotCalled => hav.ab # MathDomainError
    /\ hav.ba # NotCalled => hav.ba # MathDomainError
    /\ (hav.ab # NotCalled /\ hav.ba # NotCalled) => hav.ab = hav.ba
    /\ hav.aa # NotCalled => hav.aa = 0

-----------------------------------------------------------------------------
\* C17: in every tour request App.compute hands to the solvers, the start
\* point is not one of the destination points.
C17_StartNotADestination ==
    \A t \in Threads :
        \A args \in {threads[t].nn_args, threads[t].bf_args} \ {None} :
            \A i \in 0..(Len(args[2]) - 1) : Pt(args[2], i) # args[1]

-----------------------------------------------------------------------------
\* C18: save_locations followed by load_locations restores App.start_loc and
\* App.points exactly as they were saved (the same lat, lon, name triples in
\* the same order), and load_locations completes and reports the locations as
\* loaded.
C18_SaveLoadRoundTrip ==
    last_load.saved # None =>
        /\ last_load.start_loc = last_load.saved[1]
        /\ last_load.points = last_load.saved[2]
        /\ last_load.outcome = "Loaded"

-----------------------------------------------------------------------------
\* C19: jaccard_similarity(a, b) is |a & b| / |a | b| for sets that are not
\* both empty and 0.0 when both are empty; it is symmetric, lies in [0, 1],
\* and is 1 exactly when a = b and a is not empty. Checked for the purchase
\* sets of every two users, and for the similarities most_similar_users
\* hands to recommend_books.
C19_JaccardSimilarity ==
    /\ \A i, j \in 1..Len(users) :
          LET a == users[i].purchased_books
              b == users[j].purchased_books
              s == jaccard_similarity(a, b)
          IN  /\ (a = {} /\ b = {}) => s = 0
              /\ (a # {} \/ b # {}) =>
                    s * Cardinality(a \cup b) = Unit * Cardinality(a \cap b)
              /\ s = jaccard_similarity(b, a)
              /\ 0 <= s /\ s <= Unit
              /\ (s = Unit) <=> (a = b /\ a # {})
    /\ rec.pc \in {"score", "done"} =>
          \A k \in 1..Len(rec.similar) :
              LET a == UserOf(users, rec.target).purchased_books
                  b == rec.similar[k][1].purchased_books
              IN  rec.similar[k][2] * Cardinality(a \cup b) = Unit * Cardinality(a \cap b)

C19_Witness ==
    /\ rec.pc = "score"
    /\ Len(rec.similar) = 2
    /\ rec.similar[1][2] = Unit
    /\ rec.similar[2][2] * 3 = Unit

-----------------------------------------------------------------------------
\* the similarities of the selected similar users who purchased book_id, added up
RECURSIVE SumOfSims(_, _)
SumOfSims(similar, book_id) ==
    IF similar = <<>> THEN 0
    ELSE (IF book_id \in Head(similar)[1].purchased_books THEN Head(similar)[2] ELSE 0)
         + SumOfSims(Tail(similar), book_id)

\* C20: recommend_books never returns a book the target user has already
\* purchased, returns at most max_recs books, each of them in the catalogue,
\* each with the sum of the similarities of the selected similar users who
\* purchased it as its score, in non-increasing score order.
C20_Recommendations ==
    rec.pc = "done" =>
        LET target == UserOf(users, rec.target)
            recs == rec.recs
        IN  /\ Len(recs) <= rec.max_recs
            /\ \A i \in 1..Len(recs) :
                  /\ recs[i][1] \notin target.purchased_books
                  /\ recs[i][1] \in books
                  /\ recs[i][2] = SumOfSims(rec.similar, recs[i][1])
            /\ \A i, j \in 1..Len(recs) : i < j => recs[i][2] >= recs[j][2]

\* two books recommended with different scores, to a user who shares a book
\* with a similar user and while a third candidate was cut off
C20_Witness ==
    /\ rec.pc = "done"
    /\ Len(rec.recs) = 2
    /\ rec.recs[1][2] > rec.recs[2][2]
    /\ rec.max_recs = 2
    /\ Len(rec.similar) = 2
    /\ \E k \in 1..2 : rec.similar[k][1].purchased_books
                           \cap UserOf(users, rec.target).purchased_books # {}

-----------------------------------------------------------------------------
\* C21: most_similar_users returns at most top_k (user, similarity) pairs,
\* never the target user, only users whose Jaccard similarity with the target
\* is strictly positive (each paired with that similarity), in non-increasing
\* order of similarity, and no user it leaves out is strictly more similar
\* to the target than a user it returns.
C21_MostSimilarUsers ==
    msu.called =>
        LET target == UserOf(users, msu.target).purchased_books
            res == msu.result
            returned == { res[k][1].user_id : k \in 1..Len(res) }
            SimOf(u) == (Cardinality(target \cap u.purchased_books) * Unit)
                          \div (IF target \cup u.purchased_books = {} THEN 1
                                ELSE Cardinality(target \cup u.purchased_books))
        IN  /\ Len(res) <= msu.top_k
            /\ Cardinality(returned) = Len(res)
            /\ \A k \in 1..Len(res) :
                  /\ res[k][1].user_id # msu.target
                  /\ \E i \in 1..Len(users) : users[i] = res[k][1]
                  /\ res[k][2] = SimOf(res[k][1])
                  /\ res[k][2] > 0
            /\ \A j, k \in 1..Len(res) : j < k => res[j][2] >= res[k][2]
            /\ \A i \in 1..Len(users) :
                  (users[i].user_id \notin returned /\ users[i].user_id # msu.target) =>
                      \A k \in 1..Len(res) : SimOf(users[i]) <= res[k][2]

\* the less similar of two similar users was cut off
C21_Witness ==
    /\ msu.called
    /\ msu.top_k = 1
    /\ Len(msu.result) = 1
    /\ msu.result[1][1].user_id = "U3"
    /\ msu.target = "U1"
    /\ jaccard_similarity(users[1].purchased_books, users[2].purchased_books) > 0

\* what the fallback rule calls a usable file: it exists, it parses, and
\* its top level is a dict with the key or a list
C22_Usable(file, key) ==
    /\ file # Missing
    /\ file.json # JBad
    /\ \/ file.json.t = "list"
       \/ file.json.t = "dict" /\ key \in DOMAIN file.json.entries

C22_Content(file, key) ==
    IF file.json.t = "list" THEN file.json.items ELSE file.json.entries[key]

C22_Noticed(fname) ==
    \E i \in 1..Len(ld.msg_parts) :
        \E e \in {"No such file or directory", "Expecting value",
                  "invalid users structure", "invalid books structure"} :
            ld.msg_parts[i] = fname \o " issue (" \o e
                                \o ") - using defaults and rewriting file."

\* the rule for one file, once load_data is past it
C22_FileRule(found, now, data, key, fname, defaults) ==
    IF C22_Usable(found, key)
    THEN /\ data = C22_Content(found, key)
         /\ now = found
         /\ fname \notin written
         /\ ~C22_Noticed(fname)
    ELSE /\ data = defaults
         /\ now = Text(JDict(key, defaults))
         /\ fname \in written
         /\ C22_Noticed(fname)

\* C22: load_data falls back per file. Once it is past users.json, a missing,
\* unparseable or wrongly shaped file has been replaced by the default users,
\* rewritten with them and noticed in the message parts, and a usable file is
\* read as it is, not rewritten and not noticed; the same holds for
\* books.json, whatever users.json was, and the users step leaves books.json
\* alone. When load_data returns, the message is the notices joined by
\* newlines and the objects are those of the data chosen.
C22_FallbackPerFile ==
    /\ ld.pc \in {"books", "build", "done"} =>
          C22_FileRule(ld.found_users, users_json, ld.users_data,
                       "users", "users.json", DEFAULT_USERS)
    /\ ld.pc \in {"idle", "users", "books"} => books_json = ld.found_books
    /\ ld.pc \in {"idle", "users"} => users_json = ld.found_users /\ written = {}
    /\ ld.pc \in {"build", "done"} =>
          C22_FileRule(ld.found_books, books_json, ld.books_data,
                       "books", "books.json", DEFAULT_BOOKS)
    /\ (ld.pc = "done" /\ ~ld.raised) =>
          /\ Len(ld.msg_parts) = Cardinality(written)
          /\ ld.msg = IF Len(ld.msg_parts) = 2
                      THEN ld.msg_parts[1] \o "\n" \o ld.msg_parts[2]
                      ELSE IF Len(ld.msg_parts) = 1 THEN ld.msg_parts[1] ELSE ""
          /\ ~C22_Usable(ld.found_users, "users") =>
                { ld.users[i][1] : i \in 1..Len(ld.users) } = {"U1", "U2", "U3"}
          /\ ~C22_Usable(ld.found_books, "books") =>
                { ld.books[i][1] : i \in 1..Len(ld.books) } = {"B1", "B2", "B3", "B4"}

\* users.json has the wrong shape and books.json is a usable list: load_data
\* has returned with default users and the books of the file
C22_Witness ==
    /\ ld.pc = "done"
    /\ ~ld.raised
    /\ ld.found_users = Text(JNum)
    /\ ld.found_books.tag = "text"
    /\ ld.found_books.json.t = "list"
    /\ written = {"users.json"}
    /\ Len(ld.books) = 2

\* the last handler ran check_all_thresholds
C23_Checked ==
    \/ inv_last.op = "__init__"
    \/ inv_last = [op |-> "place_order", ret |-> "Order Placed"]
    \/ inv_last = [op |-> "delete_selected", ret |-> "True"]

\* C23: after check_all_thresholds the alert names every item whose quantity
\* is at or below its threshold, which are exactly the rows that
\* highlight_low_stock_rows has tagged low_stock.
C23_AlertsAtOrBelow ==
    C23_Checked =>
        /\ Elems(alert) = { items[i].id : i \in { j \in 1..Len(items) :
                                items[j].quantity <= items[j].threshold } }
        /\ Elems(alert) = { table[r].id : r \in { j \in 1..Len(table) :
                                table[j].tags = "low_stock" } }

\* the non-negative integers a text stands for: none, or one
C24_Quantity(text) == { n \in 0..MaxQty : Strip(text) = Str(n) }

C24_HasItem(item_id) == \E i \in 1..Len(items) : Strip(items[i].id) = Strip(item_id)

C24_Call(item_id, new_quantity) ==
    LET r == set_quantity(items, item_id, new_quantity)
    IN  IF ~C24_HasItem(item_id) \/ C24_Quantity(new_quantity) = {}
        THEN /\ ~r.ret
             /\ r.items = items
             /\ ~r.saved
        ELSE /\ r.ret
             /\ r.saved
             /\ Len(r.items) = Len(items)
             /\ \E k \in 1..Len(items) :
                   /\ Strip(items[k].id) = Strip(item_id)
                   /\ r.items[k].quantity \in C24_Quantity(new_quantity)
                   /\ \A f \in {"key", "id", "name", "threshold"} :
                         r.items[k][f] = items[k][f]
                   /\ \A j \in 1..Len(items) : j # k => r.items[j] = items[j]

C24_Step ==
    inv_last'.op = "set_quantity" =>
        IF inv_last'.ret = "False"
        THEN items' = items /\ inventory_json' = inventory_json
        ELSE /\ Len(items') = Len(items)
             /\ \E k \in 1..Len(items) :
                   \A j \in 1..Len(items) : j # k => items'[j] = items[j]
             /\ inventory_json' = [exists |-> TRUE, data |-> items']

\* C24: on every stock, set_quantity returns False, changes no quantity and
\* saves nothing when no item has the id, when new_quantity is not the text
\* of an integer, or when the integer is negative; otherwise it returns True
\* and sets the quantity of the matched item, and of no other, to that
\* integer. A refused update leaves the items and inventory.json as they
\* were, an accepted one changes at most one item and saves.
C24_SetQuantity ==
    /\ [](\A item_id \in RequestIds, new_quantity \in QtyTexts :
             C24_Call(item_id, new_quantity))
    /\ [][C24_Step]_vars

\* two items are stored and set_quantity has just changed one of them
C24_Witness ==
    /\ inv_last = [op |-> "set_quantity", ret |-> "True"]
    /\ Len(items) = 2
    /\ items[1].quantity = 0
    /\ items[2].quantity = MaxQty

C25_Stored(item_id) == \E i \in 1..Len(items) : items[i].id = item_id

C25_Call(item) ==
    LET r == add_item(items, item)
    IN  IF C25_Stored(item.id)
        THEN /\ ~r.ret
             /\ r.items = items
             /\ ~r.saved
        ELSE /\ r.ret
             /\ r.saved
             /\ r.items = items \o <<item>>

C25_Step ==
    inv_last'.op = "save_item" =>
        IF inv_last'.ret = "True"
        THEN /\ Len(items') = Len(items) + 1
             /\ SubSeq(items', 1, Len(items)) = items
             /\ ~C25_Stored(items'[Len(items')].id)
        ELSE items' = items /\ inventory_json' = inventory_json

C25_EachIdOnce ==
    \A i, j \in 1..Len(items) : items[i].id = items[j].id => i = j

\* C25: on every stock, add_item returns False and leaves the stored items
\* as they are, saving nothing, when the id is already stored, and otherwise
\* stores the item after the others; so a refused item overwrites nothing,
\* an accepted one has a new id, and each id is stored at most once.
C25_AddItem ==
    /\ [](C25_EachIdOnce)
    /\ [](\A item_id \in ItemIds, name \in ItemNames, q \in 0..MaxQty :
             C25_Call([key |-> item_id, id |-> item_id, name |-> name,
                       quantity |-> q, threshold |-> 1]))
    /\ [][C25_Step]_vars

\* add_item has just refused an id that is stored, next to another item
C25_Witness ==
    /\ inv_last = [op |-> "save_item", ret |-> "False"]
    /\ Len(items) = 2

\* the positive integers a text stands for: none, or one
C26_Positive(text) == { n \in 1..MaxQty : Strip(text) = Str(n) }

\* the item the combobox entry was made from
C26_Selected(item_var) ==
    CHOOSE k \in 1..Len(items) : item_var = items[k].id \o <<" ", "-", " ">> \o items[k].name

C26_Step(item_var, qty_entry) ==
    (place_order(item_var, qty_entry) /\ item_var # <<>>) =>
        LET k == C26_Selected(item_var)
        IN  IF C26_Positive(qty_entry) # {}
            THEN /\ Len(orders') = Len(orders) + 1
                 /\ SubSeq(orders', 1, Len(orders)) = orders
                 /\ orders'[Len(orders')].quantity \in C26_Positive(qty_entry)
                 /\ Len(items') = Len(items)
                 /\ items'[k].quantity - items[k].quantity \in C26_Positive(qty_entry)
                 /\ \A j \in 1..Len(items) : j # k => items'[j] = items[j]
            ELSE /\ orders' = orders
                 /\ items' = items

\* C26: place_order with an item selected and the text of a positive integer
\* q appends exactly one order, of quantity q, and adds exactly q to the
\* stock of the selected item and to no other; with any other quantity text
\* it creates no order and changes no stock.
C26_PlaceOrder ==
    [][\A i \in 1..Len(items), qty_entry \in QtyTexts :
           C26_Step(ComboText(items[i]), qty_entry)]_vars

\* the edges of one tour, held against the order the solver returned
C27_EdgesOf(edges, order) ==
    LET coords == <<draw.start_loc>>
                  \o [i \in 1..Len(draw.points) |->
                        <<draw.points[i][1], draw.points[i][2]>>]
    IN  /\ Len(edges) = Len(order) + 1
        /\ \A e \in 1..Len(edges) :
              /\ edges[e][1] \in 0..Len(draw.points)
              /\ edges[e][2] \in 0..Len(draw.points)
              /\ edges[e][3] = haversine(coords[edges[e][1] + 1], coords[edges[e][2] + 1])
        /\ edges[1][1] = 0
        /\ \A e \in 1..Len(order) :
              /\ edges[e][2] = order[e] + 1
              /\ edges[e + 1][1] = edges[e][2]
        /\ edges[Len(edges)][2] = 0

\* C27: each edge (i, j, d) of build_edges joins two nodes of labels/coords
\* (0 the start, k + 1 destination k) and d is the distance between
\* coords[i] and coords[j]; the edges leave node 0, visit the destinations
\* in the order the solver returned, and end with the return to node 0.
C27_EdgesFollowOrder ==
    /\ draw.pc \in {"nn_edges", "bf_edges", "drawn"} =>
          C27_EdgesOf(draw.nn_edges, draw.order_nn)
    /\ draw.pc \in {"bf_edges", "drawn"} =>
          C27_EdgesOf(draw.bf_edges, draw.order_bf)

====
